---- MODULE Spec2Model ----
(***************************************************************************)
(* The persistence core of rae-core-rust: the tenant-partitioned property  *)
(* graph (storage/graph.rs, InMemoryGraphStore) and the memory-record      *)
(* store (storage/in_memory.rs, InMemoryStorage).                          *)
(*                                                                         *)
(* Every store operation is a pure operator on the protected maps (named   *)
(* after the Rust method) and an action that applies it and leaves the     *)
(* call's arguments and result in `ret`.  A sequential caller issues one   *)
(* call at a time: a call is taken when ret = Idle and `Return` hands the  *)
(* result back.                                                            *)
(***************************************************************************)
EXTENDS Integers, Sequences, FiniteSets, TLC

VARIABLES
    nodes,      \* InMemoryGraphStore.nodes: tenant_id -> node_id -> Node
    edges,      \* InMemoryGraphStore.edges: tenant_id -> [Edge]
    nodesB,     \* the node map of a second run of the graph store
    edgesB,     \* the edge map of a second run of the graph store
    memories,   \* InMemoryStorage.memories: id -> MemoryRecord
    now,        \* the wall clock read by chrono::Utc::now()
    issued,     \* the identifiers Uuid::new_v4() has handed out so far
    tasks,      \* the concurrent store_memory calls: position, arguments, locals
    mem_lock,   \* the RwLock around InMemoryStorage.memories
    locks,      \* the RwLocks of InMemoryGraphStore: "nodes" and "edges"
    poisoned,   \* the RwLocks a panicking writer has poisoned
    base,       \* count_memories for the writers' tenant before they start
    ret,        \* the call being answered: its name, arguments and result
    pre         \* the maps as they were when the call in `ret` was taken

gvars == <<nodes, edges>>
nivars == <<nodesB, edgesB>>
mvars == <<memories, now, issued>>
cvars == <<tasks, mem_lock, base>>
lvars == <<locks, poisoned>>
vars == <<nodes, edges, nodesB, edgesB, memories, now, issued, tasks, mem_lock, locks, poisoned, base, ret, pre>>

----------------------------------------------------------------------------
(* Bounds and input alphabets *)

MaxEdges == 2       \* edges held by the graph store, all tenants together
MaxNodes == 2       \* nodes held by the graph store, all tenants together
MaxNbrEdges == 2    \* edges held by the graph store in SpecNbr
MaxPathEdges == 3   \* edges held by the graph store in SpecPath
MaxDepth == 2       \* the larger max_depth argument given to get_neighbors
MaxPathDepth == 5   \* largest max_depth argument given to shortest_path
MaxIdList == 2      \* longest node_ids argument of get_subgraph
MaxMemIds == 2      \* identifiers Uuid::new_v4() can hand out in SpecMem
MaxTime == 2        \* last instant of the wall clock
MaxListIds == 3     \* identifiers Uuid::new_v4() can hand out in SpecList
MaxLimit == 2       \* largest limit argument of list_memories
MaxOffset == 3      \* largest offset argument of list_memories
NWriters == 3       \* concurrent store_memory calls in SpecWriters
NCreators == 3      \* concurrent create_node calls in SpecRace
NReaders == 2       \* reads running beside the delete_node of SpecTorn
MaxSameEdges == 2   \* edges held by the graph store in SpecSame
MaxSameNodes == 2   \* nodes held by the graph store in SpecSame
MaxBfsEdges == 3    \* edges of the tenant in SpecBfs
MaxBfsDepth == 3    \* largest max_depth argument in SpecBfs
NLive == 3          \* concurrent calls in SpecLive
NFault == 3         \* concurrent calls in SpecFault
MaxDelEdges == 3    \* edges held by the graph store in SpecEdge
MaxNIEdges == 2     \* edges held by each run of SpecNI
MaxNINodes == 2     \* nodes held by each run of SpecNI

\* Option<T>: None is the empty sequence, Some(x) the one-element sequence.
None == <<>>
Some(x) == <<x>>
IsSome(o) == o # None
Unwrap(o) == o[1]

Tenants == {"t1", "t2"}
NodeIds == {"A", "B", "C"}
NodeTypes == {"Memory", "Reflection"}
EdgeTypes == {"L", "M"}
CoreNodeTypes == {"Memory"}
CoreEdgeTypes == {"L"}
PathNodeIds == {"A", "B", "C", "D"}
PathTenant == "t1"
Weights == {1}
Agents == {"a", "b"}
Layers == {"Working", "Episodic"}
Contents == {"c1"}
Importances == {1}
TagInputs == {<<>>}
TagFilters == {None, Some(<<"x">>)}
ExpiryInputs == {None}
EmbeddingInputs == {None}
Directions == {"out", "in", "both", "sideways"}

\* HashMap<String, Value>::default()
EmptyProperties == [k \in {} |-> 0]
PropertyInputs == {None}
UnwrapOrDefault(p) == IF IsSome(p) THEN Unwrap(p) ELSE EmptyProperties

Idle == [op |-> "idle"]
NoPre == [op |-> "none"]

----------------------------------------------------------------------------
(* HashMap and Vec helpers *)

\* HashMap::get
Get(m, k) == IF k \in DOMAIN m THEN Some(m[k]) ELSE None

\* HashMap::insert (insert or overwrite)
Insert(m, k, v) == [x \in DOMAIN m \cup {k} |-> IF x = k THEN v ELSE m[x]]

\* HashMap::remove
Remove(m, k) == [x \in DOMAIN m \ {k} |-> m[x]]

EmptyMap == [k \in {} |-> 0]

Range(s) == {s[i] : i \in 1..Len(s)}

\* every order in which a HashSet / HashMap of the elements S may be iterated
RECURSIVE Orders(_)
Orders(S) ==
    IF S = {} THEN {<<>>}
    ELSE UNION {{<<x>> \o o : o \in Orders(S \ {x})} : x \in S}

RECURSIVE SeqsUpTo(_, _)
SeqsUpTo(S, n) ==
    IF n = 0 THEN {<<>>}
    ELSE LET shorter == SeqsUpTo(S, n - 1)
         IN  shorter \cup {Append(s, x) : s \in shorter, x \in S}

----------------------------------------------------------------------------
(* Graph store: storage/graph.rs *)

Node(node_id, node_type, properties) ==
    [id |-> node_id, node_type |-> node_type, properties |-> properties]

Edge(source_id, target_id, edge_type, weight, properties) ==
    [source_id |-> source_id, target_id |-> target_id, edge_type |-> edge_type,
     weight |-> weight, properties |-> properties]

\* create_node keeping a node that is already there (entry().or_insert)
create_node_nodes_keep_existing(all_nodes, node_id, node_type, tenant_id, properties) ==
    LET tenant_nodes == IF tenant_id \in DOMAIN all_nodes THEN all_nodes[tenant_id] ELSE EmptyMap
    IN  IF node_id \in DOMAIN tenant_nodes THEN all_nodes
        ELSE Insert(all_nodes, tenant_id, Insert(tenant_nodes, node_id, Node(node_id, node_type, UnwrapOrDefault(properties))))

\* create_node: all_nodes.entry(tenant).or_insert_with(HashMap::new).insert(..)
create_node_nodes(all_nodes, node_id, node_type, tenant_id, properties) ==
    LET tenant_nodes == IF tenant_id \in DOMAIN all_nodes
                        THEN all_nodes[tenant_id] ELSE EmptyMap
    IN  Insert(all_nodes, tenant_id,
               Insert(tenant_nodes, node_id,
                      Node(node_id, node_type, UnwrapOrDefault(properties))))

\* create_edge: all_edges.entry(tenant).or_insert_with(Vec::new).push(..)
create_edge_edges(all_edges, source_id, target_id, edge_type, tenant_id, weight, properties) ==
    LET tenant_edges == IF tenant_id \in DOMAIN all_edges
                        THEN all_edges[tenant_id] ELSE <<>>
    IN  Insert(all_edges, tenant_id,
               Append(tenant_edges,
                      Edge(source_id, target_id, edge_type, weight,
                           UnwrapOrDefault(properties))))

\* edge_type.map_or(true, |t| edge.edge_type == t)
TypeMatches(edge, edge_type) ==
    IF IsSome(edge_type) THEN edge.edge_type = Unwrap(edge_type) ELSE TRUE

\* get_neighbors's loop body with the "out" and "in" arms exchanged
NeighborStepSwapped(neighbors, edge, node_id, edge_type, direction) ==
    IF TypeMatches(edge, edge_type)
    THEN CASE direction = "in" ->
                IF edge.source_id = node_id
                THEN neighbors \cup {edge.target_id} ELSE neighbors
           [] direction = "out" ->
                IF edge.target_id = node_id
                THEN neighbors \cup {edge.source_id} ELSE neighbors
           [] OTHER ->
                IF edge.source_id = node_id
                THEN neighbors \cup {edge.target_id}
                ELSE IF edge.target_id = node_id
                     THEN neighbors \cup {edge.source_id} ELSE neighbors
    ELSE neighbors

\* get_neighbors following only the edges that leave the node unless the
\* direction is "in"
NeighborStepOutUnlessIn(neighbors, edge, node_id, edge_type, direction) ==
    IF TypeMatches(edge, edge_type)
    THEN IF direction = "in"
         THEN IF edge.target_id = node_id THEN neighbors \cup {edge.source_id} ELSE neighbors
         ELSE IF edge.source_id = node_id THEN neighbors \cup {edge.target_id} ELSE neighbors
    ELSE neighbors

\* the body of get_neighbors's loop for one edge: the HashSet after it
NeighborStep(neighbors, edge, node_id, edge_type, direction) ==
    IF TypeMatches(edge, edge_type)
    THEN CASE direction = "out" ->
                IF edge.source_id = node_id
                THEN neighbors \cup {edge.target_id} ELSE neighbors
           [] direction = "in" ->
                IF edge.target_id = node_id
                THEN neighbors \cup {edge.source_id} ELSE neighbors
           [] OTHER ->
                IF edge.source_id = node_id
                THEN neighbors \cup {edge.target_id}
                ELSE IF edge.target_id = node_id
                     THEN neighbors \cup {edge.source_id} ELSE neighbors
    ELSE neighbors

RECURSIVE NeighborScan(_, _, _, _, _)
NeighborScan(tenant_edges, neighbors, node_id, edge_type, direction) ==
    IF tenant_edges = <<>> THEN neighbors
    ELSE NeighborScan(Tail(tenant_edges),
                      NeighborStep(neighbors, Head(tenant_edges), node_id,
                                   edge_type, direction),
                      node_id, edge_type, direction)

\* get_neighbors up to `neighbors` (the HashSet before it is collected)
get_neighbors_set(all_edges, node_id, tenant_id, edge_type, direction, max_depth) ==
    IF tenant_id \notin DOMAIN all_edges THEN {}
    ELSE NeighborScan(all_edges[tenant_id], {}, node_id, edge_type, direction)

\* delete_node: the node map after it, and whether the node was removed
delete_node_removed(all_nodes, node_id, tenant_id) ==
    IF tenant_id \in DOMAIN all_nodes
    THEN node_id \in DOMAIN all_nodes[tenant_id]
    ELSE FALSE

delete_node_nodes(all_nodes, node_id, tenant_id) ==
    IF tenant_id \in DOMAIN all_nodes
    THEN [all_nodes EXCEPT ![tenant_id] = Remove(@, node_id)]
    ELSE all_nodes

\* delete_node with the edge cleanup run over every tenant's edges
delete_node_edges_all_tenants(all_edges, node_id, tenant_id) ==
    LET keep(e) == e.source_id # node_id /\ e.target_id # node_id
    IN  [t \in DOMAIN all_edges |-> SelectSeq(all_edges[t], keep)]

\* delete_node with the edge cleanup run only when the node was removed
delete_node_edges_if_removed(all_edges, node_id, tenant_id) ==
    IF tenant_id \in DOMAIN all_edges /\ delete_node_removed(nodes, node_id, tenant_id)
    THEN LET keep(e) == e.source_id # node_id /\ e.target_id # node_id
         IN  [all_edges EXCEPT ![tenant_id] = SelectSeq(@, keep)]
    ELSE all_edges

\* delete_node: the edge map after it (Vec::retain keeps the order; run whether or not the node existed)
delete_node_edges(all_edges, node_id, tenant_id) ==
    IF tenant_id \in DOMAIN all_edges
    THEN LET keep(e) == e.source_id # node_id /\ e.target_id # node_id
         IN  [all_edges EXCEPT ![tenant_id] = SelectSeq(@, keep)]
    ELSE all_edges

\* delete_edge matching an edge in either direction
delete_edge_edges_symmetric(all_edges, source_id, target_id, edge_type, tenant_id) ==
    LET keep(e) == ~(/\ \/ (e.source_id = source_id /\ e.target_id = target_id)
                        \/ (e.source_id = target_id /\ e.target_id = source_id)
                     /\ e.edge_type = edge_type)
    IN  IF tenant_id \in DOMAIN all_edges
        THEN [all_edges EXCEPT ![tenant_id] = SelectSeq(@, keep)]
        ELSE all_edges

\* delete_edge: the edge map after it, and whether an edge was removed
delete_edge_edges(all_edges, source_id, target_id, edge_type, tenant_id) ==
    IF tenant_id \in DOMAIN all_edges
    THEN LET keep(e) == ~(e.source_id = source_id /\ e.target_id = target_id
                          /\ e.edge_type = edge_type)
         IN  [all_edges EXCEPT ![tenant_id] = SelectSeq(@, keep)]
    ELSE all_edges

delete_edge_removed(all_edges, source_id, target_id, edge_type, tenant_id) ==
    IF tenant_id \in DOMAIN all_edges
    THEN Len(delete_edge_edges(all_edges, source_id, target_id, edge_type,
                               tenant_id)[tenant_id])
         < Len(all_edges[tenant_id])
    ELSE FALSE

\* shortest_path's edge loop following edges from source to target only
RECURSIVE ScanEdgesDirected(_, _, _, _, _, _)
ScanEdgesDirected(tenant_edges, i, path, queue, visited, target_id) ==
    IF i > Len(tenant_edges)
    THEN [found |-> FALSE, queue |-> queue, visited |-> visited]
    ELSE LET edge == tenant_edges[i]
             current == path[Len(path)]
             neighbor == IF edge.source_id = current THEN Some(edge.target_id) ELSE None
         IN  IF IsSome(neighbor)
             THEN LET n == Unwrap(neighbor)
                  IN  IF n = target_id
                      THEN [found |-> TRUE, path |-> Append(path, n)]
                      ELSE IF n \notin visited
                           THEN ScanEdgesDirected(tenant_edges, i + 1, path, Append(queue, Append(path, n)), visited \cup {n}, target_id)
                           ELSE ScanEdgesDirected(tenant_edges, i + 1, path, queue, visited, target_id)
             ELSE ScanEdgesDirected(tenant_edges, i + 1, path, queue, visited, target_id)

\* shortest_path, the for loop over tenant_edges from edge i on, for the path
\* popped from the queue: either the path found, or the queue and the visited
\* set when the loop ends
RECURSIVE ScanEdges(_, _, _, _, _, _)
ScanEdges(tenant_edges, i, path, queue, visited, target_id) ==
    IF i > Len(tenant_edges)
    THEN [found |-> FALSE, queue |-> queue, visited |-> visited]
    ELSE LET edge == tenant_edges[i]
             current == path[Len(path)]
             neighbor == IF edge.source_id = current THEN Some(edge.target_id)
                         ELSE IF edge.target_id = current THEN Some(edge.source_id)
                         ELSE None
         IN  IF IsSome(neighbor)
             THEN LET n == Unwrap(neighbor)
                  IN  IF n = target_id
                      THEN [found |-> TRUE, path |-> Append(path, n)]
                      ELSE IF n \notin visited
                           THEN ScanEdges(tenant_edges, i + 1, path, Append(queue, Append(path, n)), visited \cup {n}, target_id)
                           ELSE ScanEdges(tenant_edges, i + 1, path, queue, visited, target_id)
             ELSE ScanEdges(tenant_edges, i + 1, path, queue, visited, target_id)

\* shortest_path's while loop skipping a path one node later
\* (path.len() > max_depth + 1)
RECURSIVE BfsLoose(_, _, _, _, _)
BfsLoose(tenant_edges, queue, visited, target_id, max_depth) ==
    IF queue = <<>> THEN None
    ELSE LET path == Head(queue)
         IN  IF Len(path) > max_depth + 1
             THEN BfsLoose(tenant_edges, Tail(queue), visited, target_id, max_depth)
             ELSE LET r == ScanEdges(tenant_edges, 1, path, Tail(queue), visited, target_id)
                  IN  IF r.found THEN Some(r.path)
                      ELSE BfsLoose(tenant_edges, r.queue, r.visited, target_id, max_depth)

\* shortest_path, the while loop: pop the front path, skip it when it is longer
\* than max_depth, otherwise scan the edges from its last node
RECURSIVE Bfs(_, _, _, _, _)
Bfs(tenant_edges, queue, visited, target_id, max_depth) ==
    IF queue = <<>> THEN None
    ELSE LET path == Head(queue)
         IN  IF Len(path) > max_depth
             THEN Bfs(tenant_edges, Tail(queue), visited, target_id, max_depth)
             ELSE LET r == ScanEdges(tenant_edges, 1, path, Tail(queue), visited, target_id)
                  IN  IF r.found THEN Some(r.path)
                      ELSE Bfs(tenant_edges, r.queue, r.visited, target_id, max_depth)

\* shortest_path without the early return of lines 155-157
shortest_path_result_no_shortcut(all_edges, source_id, target_id, tenant_id, max_depth) ==
    IF tenant_id \notin DOMAIN all_edges THEN None
    ELSE Bfs(all_edges[tenant_id], <<(<<source_id>>)>>, {source_id}, target_id, max_depth)

\* shortest_path: Option<Vec<Uuid>>
shortest_path_result(all_edges, source_id, target_id, tenant_id, max_depth) ==
    IF source_id = target_id THEN Some(<<source_id>>)
    ELSE IF tenant_id \notin DOMAIN all_edges THEN None
    ELSE Bfs(all_edges[tenant_id], <<(<<source_id>>)>>, {source_id}, target_id, max_depth)

\* get_subgraph: the "nodes" array, one entry per listed id found in the tenant
NodeJson(node) ==
    [id |-> node.id, type |-> node.node_type, properties |-> node.properties]

EdgeJson(edge) ==
    [source |-> edge.source_id, target |-> edge.target_id, type |-> edge.edge_type, weight |-> edge.weight, properties |-> edge.properties]

\* get_subgraph giving up at the first listed id that is no node
RECURSIVE SubgraphNodesUntilMissing(_, _)
SubgraphNodesUntilMissing(tn, node_ids) ==
    IF node_ids = <<>> THEN <<>>
    ELSE IF Head(node_ids) \in DOMAIN tn
         THEN <<NodeJson(tn[Head(node_ids)])>> \o SubgraphNodesUntilMissing(tn, Tail(node_ids))
         ELSE <<>>

RECURSIVE SubgraphNodes(_, _)
SubgraphNodes(tn, node_ids) ==
    IF node_ids = <<>> THEN <<>>
    ELSE IF Head(node_ids) \in DOMAIN tn
         THEN <<NodeJson(tn[Head(node_ids)])>> \o SubgraphNodes(tn, Tail(node_ids))
         ELSE SubgraphNodes(tn, Tail(node_ids))

\* get_subgraph keeping every edge that touches the id set
RECURSIVE SubgraphEdgesTouching(_, _)
SubgraphEdgesTouching(te, node_set) ==
    IF te = <<>> THEN <<>>
    ELSE IF Head(te).source_id \in node_set \/ Head(te).target_id \in node_set
         THEN <<EdgeJson(Head(te))>> \o SubgraphEdgesTouching(Tail(te), node_set)
         ELSE SubgraphEdgesTouching(Tail(te), node_set)

RECURSIVE SubgraphEdges(_, _)
SubgraphEdges(te, node_set) ==
    IF te = <<>> THEN <<>>
    ELSE IF Head(te).source_id \in node_set /\ Head(te).target_id \in node_set
         THEN <<EdgeJson(Head(te))>> \o SubgraphEdges(Tail(te), node_set)
         ELSE SubgraphEdges(Tail(te), node_set)

get_subgraph_result(all_nodes, all_edges, node_ids, tenant_id, include_edges) ==
    LET node_set == Range(node_ids)
        nodes_out == IF tenant_id \in DOMAIN all_nodes
                     THEN SubgraphNodes(all_nodes[tenant_id], node_ids)
                     ELSE <<>>
        edges_out == IF include_edges /\ tenant_id \in DOMAIN all_edges
                     THEN SubgraphEdges(all_edges[tenant_id], node_set)
                     ELSE <<>>
    IN  [nodes |-> nodes_out, edges |-> edges_out]

\* the tenant's edge list, empty when the tenant has none
TenantEdges(all_edges, tenant_id) ==
    IF tenant_id \in DOMAIN all_edges THEN all_edges[tenant_id] ELSE <<>>

\* the tenant's node identifiers
TenantNodeIds(all_nodes, tenant_id) ==
    IF tenant_id \in DOMAIN all_nodes THEN DOMAIN all_nodes[tenant_id] ELSE {}

----------------------------------------------------------------------------
(* The graph store's calls as actions *)

RECURSIVE SumLen(_, _)
SumLen(m, D) ==
    IF D = {} THEN 0
    ELSE LET k == CHOOSE x \in D : TRUE
         IN  Len(m[k]) + SumLen(m, D \ {k})

RECURSIVE SumCard(_, _)
SumCard(m, D) ==
    IF D = {} THEN 0
    ELSE LET k == CHOOSE x \in D : TRUE
         IN  Cardinality(DOMAIN m[k]) + SumCard(m, D \ {k})

EdgeCount(all_edges) == SumLen(all_edges, DOMAIN all_edges)
NodeCount(all_nodes) == SumCard(all_nodes, DOMAIN all_nodes)

\* the protected maps at the moment a call is taken
Snapshot == [nodes |-> nodes, edges |-> edges, memories |-> memories, now |-> now]

create_node(node_id, node_type, tenant_id, properties) ==
    /\ ret = Idle
    /\ pre' = Snapshot
    /\ UNCHANGED <<cvars, nivars, lvars>>
    /\ nodes' = create_node_nodes(nodes, node_id, node_type, tenant_id, properties)
    /\ ret' = [op |-> "create_node", node_id |-> node_id, node_type |-> node_type, tenant_id |-> tenant_id, result |-> TRUE]
    /\ UNCHANGED <<edges, mvars>>

create_edge(source_id, target_id, edge_type, tenant_id, weight, properties) ==
    /\ ret = Idle
    /\ pre' = Snapshot
    /\ UNCHANGED <<cvars, nivars, lvars>>
    /\ edges' = create_edge_edges(edges, source_id, target_id, edge_type, tenant_id, weight, properties)
    /\ ret' = [op |-> "create_edge", source_id |-> source_id, target_id |-> target_id, edge_type |-> edge_type, tenant_id |-> tenant_id, result |-> TRUE]
    /\ UNCHANGED <<nodes, mvars>>

get_neighbors(node_id, tenant_id, edge_type, direction, max_depth) ==
    /\ ret = Idle
    /\ pre' = Snapshot
    /\ UNCHANGED <<cvars, nivars, lvars>>
    /\ \E v \in Orders(get_neighbors_set(edges, node_id, tenant_id, edge_type, direction, max_depth)) :
          ret' = [op |-> "get_neighbors", node_id |-> node_id, tenant_id |-> tenant_id, edge_type |-> edge_type, direction |-> direction, max_depth |-> max_depth, result |-> v]
    /\ UNCHANGED <<nodes, edges, mvars>>

delete_node(node_id, tenant_id) ==
    /\ ret = Idle
    /\ pre' = Snapshot
    /\ UNCHANGED <<cvars, nivars, lvars>>
    /\ nodes' = delete_node_nodes(nodes, node_id, tenant_id)
    /\ edges' = delete_node_edges(edges, node_id, tenant_id)
    /\ ret' = [op |-> "delete_node", node_id |-> node_id, tenant_id |-> tenant_id, result |-> delete_node_removed(nodes, node_id, tenant_id)]
    /\ UNCHANGED mvars

delete_edge(source_id, target_id, edge_type, tenant_id) ==
    /\ ret = Idle
    /\ pre' = Snapshot
    /\ UNCHANGED <<cvars, nivars, lvars>>
    /\ edges' = delete_edge_edges(edges, source_id, target_id, edge_type, tenant_id)
    /\ ret' = [op |-> "delete_edge", source_id |-> source_id, target_id |-> target_id, edge_type |-> edge_type, tenant_id |-> tenant_id, result |-> delete_edge_removed(edges, source_id, target_id, edge_type, tenant_id)]
    /\ UNCHANGED <<nodes, mvars>>

shortest_path(source_id, target_id, tenant_id, max_depth) ==
    /\ ret = Idle
    /\ pre' = Snapshot
    /\ UNCHANGED <<cvars, nivars, lvars>>
    /\ ret' = [op |-> "shortest_path", source_id |-> source_id, target_id |-> target_id, tenant_id |-> tenant_id, max_depth |-> max_depth, result |-> shortest_path_result(edges, source_id, target_id, tenant_id, max_depth)]
    /\ UNCHANGED <<nodes, edges, mvars>>

get_subgraph(node_ids, tenant_id, include_edges) ==
    /\ ret = Idle
    /\ pre' = Snapshot
    /\ UNCHANGED <<cvars, nivars, lvars>>
    /\ ret' = [op |-> "get_subgraph", node_ids |-> node_ids, tenant_id |-> tenant_id, include_edges |-> include_edges, result |-> get_subgraph_result(nodes, edges, node_ids, tenant_id, include_edges)]
    /\ UNCHANGED <<nodes, edges, mvars>>

\* the caller takes the result; the next call may start
Return ==
    /\ ret # Idle
    /\ ret' = Idle
    /\ pre' = NoPre
    /\ UNCHANGED <<cvars, nivars, lvars>>
    /\ UNCHANGED <<gvars, mvars>>

\* InMemoryGraphStore::new
InitGraph ==
    /\ nodes = EmptyMap
    /\ edges = EmptyMap
    /\ nodesB = EmptyMap
    /\ edgesB = EmptyMap

\* InMemoryStorage::new
InitMemory ==
    /\ memories = EmptyMap
    /\ now = 0
    /\ issued = {}

\* RwLock::new: no writer (0), no readers
Unlocked == [writer |-> 0, readers |-> {}]

\* RwLock::new for the graph store's two locks; nothing poisoned
InitLocks ==
    /\ locks = [name \in {"nodes", "edges"} |-> Unlocked]
    /\ poisoned = {}

\* no concurrent calls
InitTasks ==
    /\ tasks = <<>>
    /\ mem_lock = Unlocked
    /\ InitLocks
    /\ base = 0

Init ==
    /\ InitGraph
    /\ InitMemory
    /\ InitTasks
    /\ ret = Idle
    /\ pre = NoPre

----------------------------------------------------------------------------
(* Spec: the graph store's node and edge maintenance and get_subgraph, one  *)
(* sequential caller, two tenants.                                          *)

CreateNodeCall ==
    \E node_id \in NodeIds, node_type \in CoreNodeTypes, tenant_id \in Tenants, properties \in PropertyInputs :
        /\ NodeCount(create_node_nodes(nodes, node_id, node_type, tenant_id, properties)) <= MaxNodes
        /\ create_node(node_id, node_type, tenant_id, properties)

CreateEdgeCall ==
    \E source_id \in NodeIds, target_id \in NodeIds, edge_type \in CoreEdgeTypes, tenant_id \in Tenants, weight \in Weights, properties \in PropertyInputs :
        /\ EdgeCount(edges) < MaxEdges
        /\ create_edge(source_id, target_id, edge_type, tenant_id, weight, properties)

DeleteNodeCall ==
    \E node_id \in NodeIds, tenant_id \in Tenants :
        delete_node(node_id, tenant_id)

DeleteEdgeCall ==
    \E source_id \in NodeIds, target_id \in NodeIds, edge_type \in CoreEdgeTypes, tenant_id \in Tenants :
        delete_edge(source_id, target_id, edge_type, tenant_id)

GetSubgraphCall ==
    \E node_ids \in SeqsUpTo(NodeIds, MaxIdList), tenant_id \in Tenants, include_edges \in BOOLEAN :
        get_subgraph(node_ids, tenant_id, include_edges)

Next ==
    \/ CreateNodeCall
    \/ CreateEdgeCall
    \/ DeleteNodeCall
    \/ DeleteEdgeCall
    \/ GetSubgraphCall
    \/ Return

Spec == Init /\ [][Next]_vars

----------------------------------------------------------------------------
(* SpecNbr: the edge collection and get_neighbors, with typed edges.        *)

NbrCreateEdge ==
    \E source_id \in NodeIds, target_id \in NodeIds, edge_type \in EdgeTypes, tenant_id \in Tenants, weight \in Weights, properties \in PropertyInputs :
        /\ EdgeCount(edges) < MaxNbrEdges
        /\ create_edge(source_id, target_id, edge_type, tenant_id, weight, properties)

NbrDeleteEdge ==
    \E source_id \in NodeIds, target_id \in NodeIds, edge_type \in EdgeTypes, tenant_id \in Tenants :
        delete_edge(source_id, target_id, edge_type, tenant_id)

NbrGetNeighbors ==
    \E node_id \in NodeIds, tenant_id \in Tenants, edge_type \in {None} \cup {Some(t) : t \in EdgeTypes}, direction \in Directions, max_depth \in {0, MaxDepth} :
        get_neighbors(node_id, tenant_id, edge_type, direction, max_depth)

NextNbr ==
    \/ NbrCreateEdge
    \/ NbrDeleteEdge
    \/ NbrGetNeighbors
    \/ Return

SpecNbr == Init /\ [][NextNbr]_vars

----------------------------------------------------------------------------
(* SpecEdge: create_edge and delete_edge on two nodes with two edge types,  *)
(* so that duplicates, reversed edges and edges of another type coexist.    *)

EdgeNodeIds == {"A", "B"}

EdgeCreateEdge ==
    \E source_id \in EdgeNodeIds, target_id \in EdgeNodeIds, edge_type \in EdgeTypes, tenant_id \in Tenants, weight \in Weights, properties \in PropertyInputs :
        /\ EdgeCount(edges) < MaxDelEdges
        /\ create_edge(source_id, target_id, edge_type, tenant_id, weight, properties)

EdgeDeleteEdge ==
    \E source_id \in EdgeNodeIds, target_id \in EdgeNodeIds, edge_type \in EdgeTypes, tenant_id \in Tenants :
        delete_edge(source_id, target_id, edge_type, tenant_id)

NextEdge ==
    \/ EdgeCreateEdge
    \/ EdgeDeleteEdge
    \/ Return

SpecEdge == Init /\ [][NextEdge]_vars

----------------------------------------------------------------------------
(* SpecSame: shortest_path over tenants with and without nodes and edges,   *)
(* for identifiers that are nodes and identifiers that are not.             *)

SameNodeIds == {"A", "B"}

SameCreateNode ==
    \E node_id \in SameNodeIds, tenant_id \in Tenants :
        /\ NodeCount(create_node_nodes(nodes, node_id, "Memory", tenant_id, None)) <= MaxSameNodes
        /\ create_node(node_id, "Memory", tenant_id, None)

SameCreateEdge ==
    \E source_id \in SameNodeIds, target_id \in SameNodeIds, tenant_id \in Tenants :
        /\ EdgeCount(edges) < MaxSameEdges
        /\ create_edge(source_id, target_id, "L", tenant_id, 1, None)

SameDeleteNode ==
    \E node_id \in SameNodeIds, tenant_id \in Tenants :
        delete_node(node_id, tenant_id)

SameShortestPath ==
    \E source_id \in SameNodeIds, target_id \in SameNodeIds, tenant_id \in Tenants, max_depth \in 0..MaxDepth :
        shortest_path(source_id, target_id, tenant_id, max_depth)

NextSame ==
    \/ SameCreateNode
    \/ SameCreateEdge
    \/ SameDeleteNode
    \/ SameShortestPath
    \/ Return

SpecSame == Init /\ [][NextSame]_vars

----------------------------------------------------------------------------
(* SpecPath: shortest_path over every edge list of one tenant on four nodes *)

PathCreateEdge ==
    \E source_id \in PathNodeIds, target_id \in PathNodeIds, edge_type \in CoreEdgeTypes, weight \in Weights, properties \in PropertyInputs :
        /\ EdgeCount(edges) < MaxPathEdges
        /\ create_edge(source_id, target_id, edge_type, PathTenant, weight, properties)

PathShortestPath ==
    \E source_id \in PathNodeIds, target_id \in PathNodeIds, max_depth \in 0..MaxPathDepth :
        shortest_path(source_id, target_id, PathTenant, max_depth)

NextPath ==
    \/ PathCreateEdge
    \/ PathShortestPath
    \/ Return

SpecPath == Init /\ [][NextPath]_vars

----------------------------------------------------------------------------
(* Memory store: storage/in_memory.rs *)

\* the fields of MemoryRecord
RecordFields == {"id", "tenant_id", "agent_id", "content", "layer", "importance", "tags", "metadata", "created_at", "updated_at", "expires_at", "last_accessed_at", "access_count"}

\* Uuid::new_v4(): a random 122-bit value, taken to differ from every
\* identifier generated before
NewV4(pool) == pool \ issued

\* store_memory: the record it builds
NewRecord(id, t, tenant_id, agent_id, content, layer, importance, tags, metadata, expires_at) ==
    [id |-> id, tenant_id |-> tenant_id, agent_id |-> agent_id, content |-> content, layer |-> layer, importance |-> importance, tags |-> tags, metadata |-> metadata, created_at |-> t, updated_at |-> t, expires_at |-> expires_at, last_accessed_at |-> None, access_count |-> 0]

\* store_memory: memories.insert(id, record)
store_memory_memories(all, record) == Insert(all, record.id, record)

\* get_memory: Option<MemoryRecord>
get_memory_result(all, memory_id, tenant_id) ==
    LET record == Get(all, memory_id)
    IN  IF IsSome(record) /\ Unwrap(record).tenant_id # tenant_id THEN None
        ELSE record

\* update_memory without the tenant comparison of line 81
update_memory_result_any_tenant(all, memory_id, tenant_id, updates) ==
    memory_id \in DOMAIN all

\* update_memory: whether the record is found under the tenant
update_memory_result(all, memory_id, tenant_id, updates) ==
    IF memory_id \in DOMAIN all THEN all[memory_id].tenant_id = tenant_id ELSE FALSE

\* update_memory writing created_at along with updated_at
update_memory_memories_restamp(all, memory_id, tenant_id, updates, t) ==
    IF memory_id \in DOMAIN all /\ all[memory_id].tenant_id = tenant_id
    THEN [all EXCEPT ![memory_id].updated_at = t, ![memory_id].created_at = t]
    ELSE all

\* update_memory: the map after it (only updated_at is written)
update_memory_memories(all, memory_id, tenant_id, updates, t) ==
    IF update_memory_result(all, memory_id, tenant_id, updates)
    THEN [all EXCEPT ![memory_id].updated_at = t]
    ELSE all

\* delete_memory
delete_memory_result(all, memory_id, tenant_id) ==
    IF memory_id \in DOMAIN all THEN all[memory_id].tenant_id = tenant_id ELSE FALSE

\* delete_memory removing the record whatever its tenant
delete_memory_memories_any_tenant(all, memory_id, tenant_id) ==
    IF memory_id \in DOMAIN all THEN Remove(all, memory_id) ELSE all

\* delete_memory: the map after it
delete_memory_memories(all, memory_id, tenant_id) ==
    IF delete_memory_result(all, memory_id, tenant_id) THEN Remove(all, memory_id) ELSE all

\* the three filters of list_memories and count_memories
MatchesFilters(m, tenant_id, agent_id, layer) ==
    /\ m.tenant_id = tenant_id
    /\ IF IsSome(agent_id) THEN m.agent_id = Unwrap(agent_id) ELSE TRUE
    /\ IF IsSome(layer) THEN m.layer = Unwrap(layer) ELSE TRUE

\* Iterator::skip(n) and Iterator::take(n)
Skip(v, n) == IF n >= Len(v) THEN <<>> ELSE SubSeq(v, n + 1, Len(v))
Take(v, n) == IF n >= Len(v) THEN v ELSE SubSeq(v, 1, n)

\* list_memories with take(limit) applied before skip(offset)
list_memories_take_first(values, tenant_id, agent_id, layer, tags, limit, offset) ==
    LET matches(m) == MatchesFilters(m, tenant_id, agent_id, layer)
    IN  Skip(Take(SelectSeq(values, matches), limit), offset)

\* list_memories, for one iteration order `values` of memories.values()
list_memories_result(values, tenant_id, agent_id, layer, tags, limit, offset) ==
    LET matches(m) == MatchesFilters(m, tenant_id, agent_id, layer)
    IN  Take(Skip(SelectSeq(values, matches), offset), limit)

\* memories.values(): the records in every order the HashMap may yield them
Values(all) == {[i \in 1..Len(o) |-> all[o[i]]] : o \in Orders(DOMAIN all)}

\* count_memories
count_memories_result(all, tenant_id, agent_id, layer) ==
    Cardinality({id \in DOMAIN all : MatchesFilters(all[id], tenant_id, agent_id, layer)})

----------------------------------------------------------------------------
(* The memory store's calls as actions *)

store_memory(pool, tenant_id, agent_id, content, layer, importance, tags, metadata, embedding, expires_at) ==
    /\ ret = Idle
    /\ pre' = Snapshot
    /\ UNCHANGED <<cvars, nivars, lvars>>
    /\ \E id \in NewV4(pool) :
          /\ issued' = issued \cup {id}
          /\ memories' = store_memory_memories(memories, NewRecord(id, now, tenant_id, agent_id, content, layer, importance, tags, metadata, expires_at))
          /\ ret' = [op |-> "store_memory", tenant_id |-> tenant_id, agent_id |-> agent_id, content |-> content, layer |-> layer, result |-> id]
    /\ UNCHANGED <<now, gvars>>

get_memory(memory_id, tenant_id) ==
    /\ ret = Idle
    /\ pre' = Snapshot
    /\ UNCHANGED <<cvars, nivars, lvars>>
    /\ ret' = [op |-> "get_memory", memory_id |-> memory_id, tenant_id |-> tenant_id, result |-> get_memory_result(memories, memory_id, tenant_id)]
    /\ UNCHANGED <<mvars, gvars>>

update_memory(memory_id, tenant_id, updates) ==
    /\ ret = Idle
    /\ pre' = Snapshot
    /\ UNCHANGED <<cvars, nivars, lvars>>
    /\ memories' = update_memory_memories(memories, memory_id, tenant_id, updates, now)
    /\ ret' = [op |-> "update_memory", memory_id |-> memory_id, tenant_id |-> tenant_id, updates |-> updates, result |-> update_memory_result(memories, memory_id, tenant_id, updates)]
    /\ UNCHANGED <<now, issued, gvars>>

delete_memory(memory_id, tenant_id) ==
    /\ ret = Idle
    /\ pre' = Snapshot
    /\ UNCHANGED <<cvars, nivars, lvars>>
    /\ memories' = delete_memory_memories(memories, memory_id, tenant_id)
    /\ ret' = [op |-> "delete_memory", memory_id |-> memory_id, tenant_id |-> tenant_id, result |-> delete_memory_result(memories, memory_id, tenant_id)]
    /\ UNCHANGED <<now, issued, gvars>>

list_memories(tenant_id, agent_id, layer, tags, limit, offset) ==
    /\ ret = Idle
    /\ pre' = Snapshot
    /\ UNCHANGED <<cvars, nivars, lvars>>
    /\ \E values \in Values(memories) :
          ret' = [op |-> "list_memories", tenant_id |-> tenant_id, agent_id |-> agent_id, layer |-> layer, tags |-> tags, limit |-> limit, offset |-> offset, result |-> list_memories_result(values, tenant_id, agent_id, layer, tags, limit, offset)]
    /\ UNCHANGED <<mvars, gvars>>

count_memories(tenant_id, agent_id, layer) ==
    /\ ret = Idle
    /\ pre' = Snapshot
    /\ UNCHANGED <<cvars, nivars, lvars>>
    /\ ret' = [op |-> "count_memories", tenant_id |-> tenant_id, agent_id |-> agent_id, layer |-> layer, result |-> count_memories_result(memories, tenant_id, agent_id, layer)]
    /\ UNCHANGED <<mvars, gvars>>

save_embedding(memory_id, model_name, embedding, metadata) ==
    /\ ret = Idle
    /\ pre' = Snapshot
    /\ UNCHANGED <<cvars, nivars, lvars>>
    /\ ret' = [op |-> "save_embedding", memory_id |-> memory_id, result |-> TRUE]
    /\ UNCHANGED <<mvars, gvars>>

\* time passes between calls
Tick ==
    /\ ret = Idle
    /\ now < MaxTime
    /\ now' = now + 1
    /\ UNCHANGED <<memories, issued, ret, pre, gvars, cvars, nivars, lvars>>

----------------------------------------------------------------------------
(* SpecMem: the memory store's record operations, one sequential caller     *)

MemIds == 1..MaxMemIds
UpdateInputs == {EmptyMap, [content |-> "c2"], [importance |-> 2, bogus |-> 0]}

MemStore ==
    \E tenant_id \in Tenants, agent_id \in Agents, content \in Contents, layer \in Layers, importance \in Importances, tags \in TagInputs, expires_at \in ExpiryInputs, embedding \in EmbeddingInputs :
        store_memory(MemIds, tenant_id, agent_id, content, layer, importance, tags, EmptyProperties, embedding, expires_at)

MemGet ==
    \E memory_id \in MemIds, tenant_id \in Tenants :
        get_memory(memory_id, tenant_id)

MemUpdate ==
    \E memory_id \in MemIds, tenant_id \in Tenants, updates \in UpdateInputs :
        update_memory(memory_id, tenant_id, updates)

MemDelete ==
    \E memory_id \in MemIds, tenant_id \in Tenants :
        delete_memory(memory_id, tenant_id)

MemSaveEmbedding ==
    \E memory_id \in MemIds :
        save_embedding(memory_id, "model", <<>>, None)

NextMem ==
    \/ MemStore
    \/ MemGet
    \/ MemUpdate
    \/ MemDelete
    \/ MemSaveEmbedding
    \/ Tick
    \/ Return

SpecMem == Init /\ [][NextMem]_vars

----------------------------------------------------------------------------
(* SpecList: list_memories and count_memories over up to MaxListIds records *)

ListIds == 1..MaxListIds
AgentFilters == {None, Some("a")}
LayerFilters == {None, Some("Working")}

ListStore ==
    \E tenant_id \in Tenants, agent_id \in Agents, layer \in Layers :
        store_memory(ListIds, tenant_id, agent_id, "c1", layer, 1, <<>>, EmptyProperties, None, None)

ListDelete ==
    \E memory_id \in ListIds, tenant_id \in Tenants :
        delete_memory(memory_id, tenant_id)

ListList ==
    \E tenant_id \in Tenants, agent_id \in AgentFilters, layer \in LayerFilters, tags \in TagFilters, limit \in 0..MaxLimit, offset \in 0..MaxOffset :
        list_memories(tenant_id, agent_id, layer, tags, limit, offset)

ListCount ==
    \E tenant_id \in Tenants, agent_id \in AgentFilters, layer \in LayerFilters :
        count_memories(tenant_id, agent_id, layer)

NextList ==
    \/ ListStore
    \/ ListDelete
    \/ ListList
    \/ ListCount
    \/ Return

SpecList == Init /\ [][NextList]_vars

----------------------------------------------------------------------------
(* SpecWriters: NWriters store_memory calls on one tenant run concurrently  *)
(* (tests/storage_tests.rs, test_concurrency_storage).  Each call builds    *)
(* its record, takes the write lock, inserts and returns, dropping the      *)
(* guard.  HashMap::insert is not one atomic step: it reads the table and   *)
(* writes it, here as two steps under the lock.                             *)

Writers == 1..NWriters
WriterTenant == "t1"
WriterIds == 0..NWriters

\* RwLock::write that lets every caller in
WriteLockNeverHeld(l) == TRUE

\* RwLock::write succeeds when nobody holds the lock
WriteLockFree(l) == l.writer = 0 /\ l.readers = {}

\* lines 36-52: the identifier, the instant and the record
w_build(p) ==
    /\ tasks[p].pc = "start"
    /\ \E id \in NewV4(WriterIds) :
          /\ issued' = issued \cup {id}
          /\ tasks' = [tasks EXCEPT ![p].pc = "built", ![p].record = NewRecord(id, now, WriterTenant, tasks[p].agent_id, tasks[p].content, tasks[p].layer, 1, <<>>, EmptyProperties, None)]
    /\ UNCHANGED <<memories, now, mem_lock, base, ret, pre, gvars, nivars, lvars>>

\* line 54: self.memories.write()
w_lock(p) ==
    /\ tasks[p].pc = "built"
    /\ WriteLockFree(mem_lock)
    /\ mem_lock' = [mem_lock EXCEPT !.writer = p]
    /\ tasks' = [tasks EXCEPT ![p].pc = "locked"]
    /\ UNCHANGED <<mvars, base, ret, pre, gvars, nivars, lvars>>

\* line 55, first half: insert reads the table
w_insert_read(p) ==
    /\ tasks[p].pc = "locked"
    /\ tasks' = [tasks EXCEPT ![p].pc = "inserting", ![p].table = memories]
    /\ UNCHANGED <<mvars, mem_lock, base, ret, pre, gvars, nivars, lvars>>

\* line 55, second half: insert writes the table
w_insert_write(p) ==
    /\ tasks[p].pc = "inserting"
    /\ memories' = store_memory_memories(tasks[p].table, tasks[p].record)
    /\ tasks' = [tasks EXCEPT ![p].pc = "inserted", ![p].table = EmptyMap]
    /\ UNCHANGED <<now, issued, mem_lock, base, ret, pre, gvars, nivars, lvars>>

\* lines 56-57: Ok(id); the guard is dropped
w_return(p) ==
    /\ tasks[p].pc = "inserted"
    /\ mem_lock' = [mem_lock EXCEPT !.writer = IF @ = p THEN 0 ELSE @]
    /\ tasks' = [tasks EXCEPT ![p].pc = "done", ![p].result = Some(tasks[p].record.id)]
    /\ UNCHANGED <<mvars, base, ret, pre, gvars, nivars, lvars>>

AllDone == \A p \in DOMAIN tasks : tasks[p].pc = "done"

\* the test's count_memories after every handle is joined
w_count_after ==
    /\ tasks # <<>>
    /\ AllDone
    /\ count_memories(WriterTenant, None, None)

\* a store the writers may start from: empty, or one record stored earlier
PriorStores ==
    {EmptyMap} \cup {[id \in {0} |-> NewRecord(0, 0, t, a, "c1", "Working", 1, <<>>, EmptyProperties, None)] : t \in Tenants, a \in Agents}

NewTask(agent_id, content, layer) ==
    [pc |-> "start", agent_id |-> agent_id, content |-> content, layer |-> layer, record |-> None, table |-> EmptyMap, result |-> None]

InitWriters ==
    /\ InitGraph
    /\ memories \in PriorStores
    /\ issued = DOMAIN memories
    /\ now = 0
    /\ tasks \in [Writers -> {NewTask(a, "c1", "Working") : a \in Agents}]
    /\ mem_lock = Unlocked
    /\ InitLocks
    /\ base = count_memories_result(memories, WriterTenant, None, None)
    /\ ret = Idle
    /\ pre = NoPre

WriterStep ==
    \E p \in Writers :
        \/ w_build(p)
        \/ w_lock(p)
        \/ w_insert_read(p)
        \/ w_insert_write(p)
        \/ w_return(p)

NextWriters ==
    \/ WriterStep
    \/ w_count_after

SpecWriters == InitWriters /\ [][NextWriters]_vars

----------------------------------------------------------------------------
(* Calls of the two stores run concurrently.  tasks[p] is one call in       *)
(* flight: its arguments, where it stands, how many of its locks it holds,  *)
(* and what it has read or decided so far.  A call takes its locks in the   *)
(* order of its `let` statements, works on the protected maps, and drops    *)
(* its guards when it returns.                                              *)

\* Result<T>: Ok(v) and Err(anyhow!("Lock poisoned"))
Ok(v) == [ok |-> TRUE, value |-> v]
Err == [ok |-> FALSE, error |-> "Lock poisoned"]

\* a reader that never waits for the writer
ReadLockAlwaysFree(l) == TRUE

\* RwLock::read succeeds when no writer holds the lock
ReadLockFree(l) == l.writer = 0

\* a caller that takes the guard out of the PoisonError and carries on
PoisonIgnored(name) == FALSE

\* read() / write() return Err(PoisonError) on a poisoned lock
Poisoned(name) == name \in poisoned

Acq(name, mode) == [lock |-> name, mode |-> mode]

\* get_subgraph taking the edge lock before the node lock
LockPlanEdgesFirst(call) ==
    CASE call.op = "create_node" -> <<Acq("nodes", "write")>>
      [] call.op = "create_edge" -> <<Acq("edges", "write")>>
      [] call.op = "get_neighbors" -> <<Acq("edges", "read")>>
      [] call.op = "delete_node" -> <<Acq("nodes", "write"), Acq("edges", "write")>>
      [] call.op = "delete_edge" -> <<Acq("edges", "write")>>
      [] call.op = "shortest_path" -> IF call.source_id = call.target_id THEN <<>> ELSE <<Acq("edges", "read")>>
      [] call.op = "get_subgraph" -> <<Acq("edges", "read"), Acq("nodes", "read")>>
      [] call.op = "store_memory" -> <<Acq("memories", "write")>>

\* the locks a call takes, in the order it takes them
LockPlan(call) ==
    CASE call.op = "create_node" -> <<Acq("nodes", "write")>>
      [] call.op = "create_edge" -> <<Acq("edges", "write")>>
      [] call.op = "get_neighbors" -> <<Acq("edges", "read")>>
      [] call.op = "delete_node" -> <<Acq("nodes", "write"), Acq("edges", "write")>>
      [] call.op = "delete_edge" -> <<Acq("edges", "write")>>
      [] call.op = "shortest_path" -> IF call.source_id = call.target_id THEN <<>> ELSE <<Acq("edges", "read")>>
      [] call.op = "get_subgraph" -> <<Acq("nodes", "read"), Acq("edges", "read")>>
      [] call.op = "store_memory" -> <<Acq("memories", "write")>>

LockOf(name) == IF name = "memories" THEN mem_lock ELSE locks[name]

CanGrant(l, mode) == IF mode = "write" THEN WriteLockFree(l) ELSE ReadLockFree(l)

Grant(l, p, mode) ==
    IF mode = "write" THEN [l EXCEPT !.writer = p] ELSE [l EXCEPT !.readers = @ \cup {p}]

\* a guard of p on l, if any, is dropped
Release(l, p) == [writer |-> IF l.writer = p THEN 0 ELSE l.writer, readers |-> l.readers \ {p}]

\* the locks p holds for writing
WriteHeld(p) == {name \in DOMAIN locks : locks[name].writer = p} \cup (IF mem_lock.writer = p THEN {"memories"} ELSE {})

\* the largest turn given so far; a call's turn is its place in the order in
\* which the calls obtained their last lock
LastTurn == CHOOSE m \in {tasks[q].turn : q \in DOMAIN tasks} : \A q \in DOMAIN tasks : tasks[q].turn <= m

\* a call not yet started; seen is the set of locks that were poisoned at the
\* moment the call returned
NewCall(call) == [pc |-> "start", call |-> call, held |-> 0, turn |-> 0, local |-> None, result |-> None, seen |-> {}]

\* self.<lock>.read() / .write() followed by map_err(..)?: the call waits for
\* the lock; on a poisoned lock it returns Err and drops the guards it holds
g_acquire(p) ==
    LET t == tasks[p]
        plan == LockPlan(t.call)
    IN  /\ t.pc = "start"
        /\ t.held < Len(plan)
        /\ CanGrant(LockOf(plan[t.held + 1].lock), plan[t.held + 1].mode)
        /\ IF Poisoned(plan[t.held + 1].lock)
           THEN /\ tasks' = [tasks EXCEPT ![p].pc = "done", ![p].result = Err, ![p].held = 0, ![p].seen = poisoned]
                /\ locks' = [name \in DOMAIN locks |-> Release(locks[name], p)]
                /\ mem_lock' = Release(mem_lock, p)
           ELSE /\ tasks' = [tasks EXCEPT ![p].held = @ + 1, ![p].pc = IF t.held + 1 = Len(plan) THEN "locked" ELSE "start", ![p].turn = IF t.held + 1 = Len(plan) THEN LastTurn + 1 ELSE @]
                /\ IF plan[t.held + 1].lock = "memories"
                   THEN mem_lock' = Grant(mem_lock, p, plan[t.held + 1].mode) /\ UNCHANGED locks
                   ELSE locks' = [locks EXCEPT ![plan[t.held + 1].lock] = Grant(@, p, plan[t.held + 1].mode)] /\ UNCHANGED mem_lock
        /\ UNCHANGED <<gvars, nivars, mvars, poisoned, base, ret, pre>>

\* shortest_path, lines 155-157: source == target returns before any lock
g_same_node(p) ==
    /\ tasks[p].pc = "start"
    /\ tasks[p].call.op = "shortest_path"
    /\ tasks[p].call.source_id = tasks[p].call.target_id
    /\ tasks' = [tasks EXCEPT ![p].pc = "done", ![p].result = Ok(Some(<<tasks[p].call.source_id>>)), ![p].seen = poisoned]
    /\ UNCHANGED <<gvars, nivars, mvars, mem_lock, lvars, base, ret, pre>>

\* create_node, lines 49-57
g_create_node(p) ==
    /\ tasks[p].pc = "locked"
    /\ tasks[p].call.op = "create_node"
    /\ nodes' = create_node_nodes(nodes, tasks[p].call.node_id, tasks[p].call.node_type, tasks[p].call.tenant_id, tasks[p].call.properties)
    /\ tasks' = [tasks EXCEPT ![p].pc = "returning", ![p].result = Ok(TRUE)]
    /\ UNCHANGED <<edges, nivars, mvars, mem_lock, lvars, base, ret, pre>>

\* create_edge, lines 70-80
g_create_edge(p) ==
    /\ tasks[p].pc = "locked"
    /\ tasks[p].call.op = "create_edge"
    /\ edges' = create_edge_edges(edges, tasks[p].call.source_id, tasks[p].call.target_id, tasks[p].call.edge_type, tasks[p].call.tenant_id, 1, None)
    /\ tasks' = [tasks EXCEPT ![p].pc = "returning", ![p].result = Ok(TRUE)]
    /\ UNCHANGED <<nodes, nivars, mvars, mem_lock, lvars, base, ret, pre>>

\* get_neighbors, lines 92-111
g_get_neighbors(p) ==
    /\ tasks[p].pc = "locked"
    /\ tasks[p].call.op = "get_neighbors"
    /\ \E v \in Orders(get_neighbors_set(edges, tasks[p].call.node_id, tasks[p].call.tenant_id, tasks[p].call.edge_type, tasks[p].call.direction, 1)) :
          tasks' = [tasks EXCEPT ![p].pc = "returning", ![p].result = Ok(v)]
    /\ UNCHANGED <<gvars, nivars, mvars, mem_lock, lvars, base, ret, pre>>

\* delete_node, lines 118-122: the node is taken out of the tenant's map
g_delete_node_remove(p) ==
    /\ tasks[p].pc = "locked"
    /\ tasks[p].call.op = "delete_node"
    /\ nodes' = delete_node_nodes(nodes, tasks[p].call.node_id, tasks[p].call.tenant_id)
    /\ tasks' = [tasks EXCEPT ![p].pc = "node_removed", ![p].local = Some(delete_node_removed(nodes, tasks[p].call.node_id, tasks[p].call.tenant_id))]
    /\ UNCHANGED <<edges, nivars, mvars, mem_lock, lvars, base, ret, pre>>

\* delete_node, lines 124-128: retain over the tenant's edges, Ok(removed)
g_delete_node_retain(p) ==
    /\ tasks[p].pc = "node_removed"
    /\ edges' = delete_node_edges(edges, tasks[p].call.node_id, tasks[p].call.tenant_id)
    /\ tasks' = [tasks EXCEPT ![p].pc = "returning", ![p].result = Ok(Unwrap(tasks[p].local))]
    /\ UNCHANGED <<nodes, nivars, mvars, mem_lock, lvars, base, ret, pre>>

\* delete_edge, lines 139-144
g_delete_edge(p) ==
    /\ tasks[p].pc = "locked"
    /\ tasks[p].call.op = "delete_edge"
    /\ edges' = delete_edge_edges(edges, tasks[p].call.source_id, tasks[p].call.target_id, tasks[p].call.edge_type, tasks[p].call.tenant_id)
    /\ tasks' = [tasks EXCEPT ![p].pc = "returning", ![p].result = Ok(delete_edge_removed(edges, tasks[p].call.source_id, tasks[p].call.target_id, tasks[p].call.edge_type, tasks[p].call.tenant_id))]
    /\ UNCHANGED <<nodes, nivars, mvars, mem_lock, lvars, base, ret, pre>>

\* shortest_path, lines 160-202
g_shortest_path(p) ==
    /\ tasks[p].pc = "locked"
    /\ tasks[p].call.op = "shortest_path"
    /\ tasks' = [tasks EXCEPT ![p].pc = "returning", ![p].result = Ok(shortest_path_result(edges, tasks[p].call.source_id, tasks[p].call.target_id, tasks[p].call.tenant_id, tasks[p].call.max_depth))]
    /\ UNCHANGED <<gvars, nivars, mvars, mem_lock, lvars, base, ret, pre>>

\* get_subgraph, lines 214-230: nodes_out is read from the node map
g_get_subgraph_nodes(p) ==
    /\ tasks[p].pc = "locked"
    /\ tasks[p].call.op = "get_subgraph"
    /\ tasks' = [tasks EXCEPT ![p].pc = "nodes_read", ![p].local = Some(get_subgraph_result(nodes, EmptyMap, tasks[p].call.node_ids, tasks[p].call.tenant_id, FALSE).nodes)]
    /\ UNCHANGED <<gvars, nivars, mvars, mem_lock, lvars, base, ret, pre>>

\* get_subgraph, lines 232-252: edges_out is read from the edge map
g_get_subgraph_edges(p) ==
    /\ tasks[p].pc = "nodes_read"
    /\ tasks' = [tasks EXCEPT ![p].pc = "returning", ![p].result = Ok([nodes |-> Unwrap(tasks[p].local), edges |-> get_subgraph_result(EmptyMap, edges, tasks[p].call.node_ids, tasks[p].call.tenant_id, tasks[p].call.include_edges).edges])]
    /\ UNCHANGED <<gvars, nivars, mvars, mem_lock, lvars, base, ret, pre>>

\* store_memory, lines 36-56 (the record is built before the lock is taken;
\* it reaches the map here)
g_store_memory(p) ==
    /\ tasks[p].pc = "locked"
    /\ tasks[p].call.op = "store_memory"
    /\ \E id \in NewV4(WriterIds) :
          /\ issued' = issued \cup {id}
          /\ memories' = store_memory_memories(memories, NewRecord(id, now, tasks[p].call.tenant_id, tasks[p].call.agent_id, tasks[p].call.content, tasks[p].call.layer, 1, <<>>, EmptyProperties, None))
          /\ tasks' = [tasks EXCEPT ![p].pc = "returning", ![p].result = Ok(id)]
    /\ UNCHANGED <<gvars, nivars, now, mem_lock, lvars, base, ret, pre>>

\* the call returns; its guards go out of scope
g_return(p) ==
    /\ tasks[p].pc = "returning"
    /\ tasks' = [tasks EXCEPT ![p].pc = "done", ![p].held = 0, ![p].seen = poisoned]
    /\ locks' = [name \in DOMAIN locks |-> Release(locks[name], p)]
    /\ mem_lock' = Release(mem_lock, p)
    /\ UNCHANGED <<gvars, nivars, mvars, poisoned, base, ret, pre>>

\* a thread panics inside HashMap::insert / Vec::push (capacity overflow)
\* while it holds a write guard: nothing is written, the guard is dropped by
\* the unwinding and the lock is left poisoned; local keeps the maps as they
\* were at that moment
g_panic(p) ==
    /\ tasks[p].pc = "locked"
    /\ tasks[p].call.op \in {"create_node", "create_edge", "store_memory"}
    /\ poisoned' = poisoned \cup WriteHeld(p)
    /\ tasks' = [tasks EXCEPT ![p].pc = "panicked", ![p].held = 0, ![p].local = Some(Snapshot)]
    /\ locks' = [name \in DOMAIN locks |-> Release(locks[name], p)]
    /\ mem_lock' = Release(mem_lock, p)
    /\ UNCHANGED <<gvars, nivars, mvars, base, ret, pre>>

\* every call has returned (or its thread has panicked)
AllReturned == \A p \in DOMAIN tasks : tasks[p].pc \in {"done", "panicked"}

----------------------------------------------------------------------------
(* SpecRace: NCreators create_node calls run concurrently on two            *)
(* identifiers of two tenants, over a store that already holds an edge.     *)

Creators == 1..NCreators
RaceNodeIds == {"A", "B"}
RaceValues == {[node_type |-> "Memory", properties |-> None], [node_type |-> "Reflection", properties |-> Some([k |-> 1])]}
RaceCalls == {[op |-> "create_node", node_id |-> n, node_type |-> v.node_type, tenant_id |-> t, properties |-> v.properties] : n \in RaceNodeIds, v \in RaceValues, t \in Tenants}
RaceEdges == create_edge_edges(EmptyMap, "A", "B", "L", "t1", 1, None)
RaceNodes == {EmptyMap, create_node_nodes(EmptyMap, "A", "Reflection", "t1", None)}

InitRace ==
    /\ nodes \in RaceNodes
    /\ edges = RaceEdges
    /\ nodesB = EmptyMap
    /\ edgesB = EmptyMap
    /\ InitMemory
    /\ tasks \in [Creators -> {NewCall(c) : c \in RaceCalls}]
    /\ mem_lock = Unlocked
    /\ InitLocks
    /\ base = 0
    /\ ret = Idle
    /\ pre = [nodes |-> nodes, edges |-> edges, memories |-> memories, now |-> now]

RaceStep ==
    \E p \in Creators :
        \/ g_acquire(p)
        \/ g_create_node(p)
        \/ g_return(p)

NextRace == RaceStep

SpecRace == InitRace /\ [][NextRace]_vars

----------------------------------------------------------------------------
(* SpecTorn: one delete_node runs concurrently with NReaders reads          *)
(* (get_subgraph, get_neighbors, shortest_path) of the same tenant.         *)

TornTenant == "t1"
TornProcs == 1..(NReaders + 1)
TornNodeIds == {"A", "B", "C"}

\* create_node for each of ids, in turn, under TornTenant
RECURSIVE NodesOf(_)
NodesOf(ids) ==
    IF ids = <<>> THEN EmptyMap
    ELSE create_node_nodes(NodesOf(SubSeq(ids, 1, Len(ids) - 1)), ids[Len(ids)], "Memory", TornTenant, None)

\* create_edge for each pair of ends, in turn, under TornTenant
RECURSIVE EdgesOf(_)
EdgesOf(ends) ==
    IF ends = <<>> THEN EmptyMap
    ELSE create_edge_edges(EdgesOf(SubSeq(ends, 1, Len(ends) - 1)), ends[Len(ends)][1], ends[Len(ends)][2], "L", TornTenant, 1, None)

TornEdges == {EdgesOf(<<<<"A", "B">>, <<"B", "C">>>>), EdgesOf(<<<<"A", "B">>, <<"C", "A">>, <<"B", "C">>>>)}

TornDeletes == {[op |-> "delete_node", node_id |-> n, tenant_id |-> TornTenant] : n \in {"A", "B"}}

TornReads ==
    {[op |-> "get_subgraph", node_ids |-> ids, tenant_id |-> TornTenant, include_edges |-> TRUE] : ids \in {<<"A", "B">>, <<"B", "C">>, <<"A", "B", "C">>}}
    \cup {[op |-> "get_neighbors", node_id |-> n, tenant_id |-> TornTenant, edge_type |-> None, direction |-> d] : n \in TornNodeIds, d \in {"out", "in", "both"}}
    \cup {[op |-> "shortest_path", source_id |-> a, target_id |-> b, tenant_id |-> TornTenant, max_depth |-> MaxDepth] : a \in {"A", "C"}, b \in {"B", "C"}}

InitTorn ==
    /\ nodes = NodesOf(<<"A", "B", "C">>)
    /\ edges \in TornEdges
    /\ nodesB = EmptyMap
    /\ edgesB = EmptyMap
    /\ InitMemory
    /\ tasks \in {[p \in TornProcs |-> IF p = 1 THEN NewCall(d) ELSE NewCall(r[p - 1])] : d \in TornDeletes, r \in [1..NReaders -> TornReads]}
    /\ mem_lock = Unlocked
    /\ InitLocks
    /\ base = 0
    /\ ret = Idle
    /\ pre = [nodes |-> nodes, edges |-> edges, memories |-> memories, now |-> now]

TornStep ==
    \E p \in TornProcs :
        \/ g_acquire(p)
        \/ g_same_node(p)
        \/ g_delete_node_remove(p)
        \/ g_delete_node_retain(p)
        \/ g_get_subgraph_nodes(p)
        \/ g_get_subgraph_edges(p)
        \/ g_get_neighbors(p)
        \/ g_shortest_path(p)
        \/ g_return(p)

NextTorn == TornStep

SpecTorn == InitTorn /\ [][NextTorn]_vars

----------------------------------------------------------------------------
(* SpecFault: NFault calls of both stores run concurrently; a writer may    *)
(* panic while it holds its guard, which poisons the lock.                  *)

FaultProcs == 1..NFault
FaultTenant == "t1"

FaultCalls ==
    {[op |-> "create_node", node_id |-> "C", node_type |-> "Memory", tenant_id |-> FaultTenant, properties |-> None],
     [op |-> "create_edge", source_id |-> "B", target_id |-> "C", edge_type |-> "L", tenant_id |-> FaultTenant],
     [op |-> "delete_node", node_id |-> "A", tenant_id |-> FaultTenant],
     [op |-> "delete_edge", source_id |-> "A", target_id |-> "B", edge_type |-> "L", tenant_id |-> FaultTenant],
     [op |-> "get_neighbors", node_id |-> "A", tenant_id |-> FaultTenant, edge_type |-> None, direction |-> "both"],
     [op |-> "shortest_path", source_id |-> "A", target_id |-> "B", tenant_id |-> FaultTenant, max_depth |-> MaxDepth],
     [op |-> "shortest_path", source_id |-> "A", target_id |-> "A", tenant_id |-> FaultTenant, max_depth |-> MaxDepth],
     [op |-> "get_subgraph", node_ids |-> <<"A", "B">>, tenant_id |-> FaultTenant, include_edges |-> TRUE],
     [op |-> "store_memory", tenant_id |-> FaultTenant, agent_id |-> "a", content |-> "c1", layer |-> "Working"]}

InitFault ==
    /\ nodes = NodesOf(<<"A", "B">>)
    /\ edges = EdgesOf(<<<<"A", "B">>>>)
    /\ nodesB = EmptyMap
    /\ edgesB = EmptyMap
    /\ InitMemory
    /\ tasks \in [FaultProcs -> {NewCall(c) : c \in FaultCalls}]
    /\ mem_lock = Unlocked
    /\ InitLocks
    /\ base = 0
    /\ ret = Idle
    /\ pre = [nodes |-> nodes, edges |-> edges, memories |-> memories, now |-> now]

FaultStep ==
    \E p \in FaultProcs :
        \/ g_acquire(p)
        \/ g_same_node(p)
        \/ g_create_node(p)
        \/ g_create_edge(p)
        \/ g_delete_node_remove(p)
        \/ g_delete_node_retain(p)
        \/ g_delete_edge(p)
        \/ g_get_subgraph_nodes(p)
        \/ g_get_subgraph_edges(p)
        \/ g_get_neighbors(p)
        \/ g_shortest_path(p)
        \/ g_store_memory(p)
        \/ g_return(p)
        \/ g_panic(p)

NextFault == FaultStep

SpecFault == InitFault /\ [][NextFault]_vars

----------------------------------------------------------------------------
(* SpecLive: NLive calls of the graph store, of any of its seven            *)
(* operations, run concurrently; every call that can take a step            *)
(* eventually takes one.                                                    *)

LiveProcs == 1..NLive
LiveTenant == "t1"

LiveCalls ==
    {[op |-> "create_node", node_id |-> "C", node_type |-> "Memory", tenant_id |-> LiveTenant, properties |-> None],
     [op |-> "create_edge", source_id |-> "B", target_id |-> "C", edge_type |-> "L", tenant_id |-> LiveTenant],
     [op |-> "delete_node", node_id |-> "A", tenant_id |-> LiveTenant],
     [op |-> "delete_edge", source_id |-> "A", target_id |-> "B", edge_type |-> "L", tenant_id |-> LiveTenant],
     [op |-> "get_neighbors", node_id |-> "A", tenant_id |-> LiveTenant, edge_type |-> None, direction |-> "both"],
     [op |-> "shortest_path", source_id |-> "A", target_id |-> "B", tenant_id |-> LiveTenant, max_depth |-> MaxDepth],
     [op |-> "shortest_path", source_id |-> "A", target_id |-> "A", tenant_id |-> LiveTenant, max_depth |-> MaxDepth],
     [op |-> "get_subgraph", node_ids |-> <<"A", "B">>, tenant_id |-> LiveTenant, include_edges |-> TRUE]}

InitLive ==
    /\ nodes = NodesOf(<<"A", "B">>)
    /\ edges = EdgesOf(<<<<"A", "B">>>>)
    /\ nodesB = EmptyMap
    /\ edgesB = EmptyMap
    /\ InitMemory
    /\ tasks \in [LiveProcs -> {NewCall(c) : c \in LiveCalls}]
    /\ mem_lock = Unlocked
    /\ InitLocks
    /\ base = 0
    /\ ret = Idle
    /\ pre = [nodes |-> nodes, edges |-> edges, memories |-> memories, now |-> now]

LiveStep(p) ==
    \/ g_acquire(p)
    \/ g_same_node(p)
    \/ g_create_node(p)
    \/ g_create_edge(p)
    \/ g_delete_node_remove(p)
    \/ g_delete_node_retain(p)
    \/ g_delete_edge(p)
    \/ g_get_subgraph_nodes(p)
    \/ g_get_subgraph_edges(p)
    \/ g_get_neighbors(p)
    \/ g_shortest_path(p)
    \/ g_return(p)

NextLive == \E p \in LiveProcs : LiveStep(p)

\* the threads that run the calls are scheduled fairly
FairLive == \A p \in LiveProcs : WF_vars(LiveStep(p))

SpecLive == InitLive /\ [][NextLive]_vars /\ FairLive

----------------------------------------------------------------------------
(* SpecBfs: one shortest_path call, statement by statement, over every edge *)
(* list of up to MaxBfsEdges edges on three nodes: cycles, self-loops and   *)
(* duplicate edges included.  The call holds the edge lock's read guard     *)
(* throughout, so the edge list does not change under it.                   *)

BfsNodeIds == {"A", "B", "C"}
BfsEdgeLists == {EdgesOf(ends) : ends \in SeqsUpTo(BfsNodeIds \X BfsNodeIds, MaxBfsEdges)}
BfsCalls == {[op |-> "shortest_path", source_id |-> "A", target_id |-> b, tenant_id |-> TornTenant, max_depth |-> d] : b \in BfsNodeIds, d \in 0..MaxBfsDepth}

\* a visited set that never holds anything
AlwaysUnvisited(visited, n) == TRUE

\* line 192: !visited.contains(&n)
Unvisited(visited, n) == n \notin visited

\* lines 155-169: the early return, the tenant lookup, the queue and the
\* visited set with the source in them; pushes counts push_back per node
b_start(p) ==
    /\ tasks[p].pc = "start"
    /\ LET c == tasks[p].call
       IN  IF c.source_id = c.target_id
           THEN tasks' = [tasks EXCEPT ![p].pc = "done", ![p].result = Ok(Some(<<c.source_id>>))]
           ELSE IF c.tenant_id \notin DOMAIN edges
           THEN tasks' = [tasks EXCEPT ![p].pc = "done", ![p].result = Ok(None)]
           ELSE tasks' = [tasks EXCEPT ![p].pc = "loop", ![p].local = [queue |-> <<(<<c.source_id>>)>>, visited |-> {c.source_id}, path |-> <<>>, i |-> 0, pushes |-> [n \in BfsNodeIds |-> IF n = c.source_id THEN 1 ELSE 0]]]
    /\ UNCHANGED <<gvars, nivars, mvars, mem_lock, lvars, base, ret, pre>>

\* lines 171-176 and 202: pop_front, the depth test, or Ok(None) when the
\* queue is empty
b_pop(p) ==
    /\ tasks[p].pc = "loop"
    /\ LET l == tasks[p].local
       IN  IF l.queue = <<>>
           THEN tasks' = [tasks EXCEPT ![p].pc = "done", ![p].result = Ok(None)]
           ELSE IF Len(Head(l.queue)) > tasks[p].call.max_depth
           THEN tasks' = [tasks EXCEPT ![p].local.queue = Tail(l.queue), ![p].local.path = Head(l.queue)]
           ELSE tasks' = [tasks EXCEPT ![p].pc = "scan", ![p].local.queue = Tail(l.queue), ![p].local.path = Head(l.queue), ![p].local.i = 1]
    /\ UNCHANGED <<gvars, nivars, mvars, mem_lock, lvars, base, ret, pre>>

\* lines 177-199: one iteration of `for edge in tenant_edges`
b_scan(p) ==
    /\ tasks[p].pc = "scan"
    /\ LET l == tasks[p].local
           te == edges[tasks[p].call.tenant_id]
           current == l.path[Len(l.path)]
       IN  IF l.i > Len(te)
           THEN tasks' = [tasks EXCEPT ![p].pc = "loop"]
           ELSE LET edge == te[l.i]
                    neighbor == IF edge.source_id = current THEN Some(edge.target_id)
                                ELSE IF edge.target_id = current THEN Some(edge.source_id)
                                ELSE None
                IN  IF neighbor = None
                    THEN tasks' = [tasks EXCEPT ![p].local.i = l.i + 1]
                    ELSE IF Unwrap(neighbor) = tasks[p].call.target_id
                    THEN tasks' = [tasks EXCEPT ![p].pc = "done", ![p].result = Ok(Some(Append(l.path, Unwrap(neighbor))))]
                    ELSE IF Unvisited(l.visited, Unwrap(neighbor))
                    THEN tasks' = [tasks EXCEPT ![p].local.i = l.i + 1, ![p].local.visited = l.visited \cup {Unwrap(neighbor)}, ![p].local.queue = Append(l.queue, Append(l.path, Unwrap(neighbor))), ![p].local.pushes[Unwrap(neighbor)] = @ + 1]
                    ELSE tasks' = [tasks EXCEPT ![p].local.i = l.i + 1]
    /\ UNCHANGED <<gvars, nivars, mvars, mem_lock, lvars, base, ret, pre>>

InitBfs ==
    /\ nodes = EmptyMap
    /\ edges \in BfsEdgeLists
    /\ nodesB = EmptyMap
    /\ edgesB = EmptyMap
    /\ InitMemory
    /\ tasks \in [{1} -> {NewCall(c) : c \in BfsCalls}]
    /\ mem_lock = Unlocked
    /\ InitLocks
    /\ base = 0
    /\ ret = Idle
    /\ pre = NoPre

NextBfs ==
    \/ b_start(1)
    \/ b_pop(1)
    \/ b_scan(1)

\* the thread that runs the call keeps running
SpecBfs == InitBfs /\ [][NextBfs]_vars /\ WF_vars(NextBfs)

----------------------------------------------------------------------------
(* Properties of the memory store *)

\* C9: concurrent writers.  Under every interleaving of NWriters store_memory
\* calls on one tenant (identical content and agent included), no call is
\* ever blocked for good, and once all have returned every call has
\* succeeded, the returned identifiers are pairwise distinct, every record
\* built is in the store as built, and count_memories for the tenant is its
\* earlier value plus NWriters.
C9_ConcurrentWriters ==
    /\ (tasks # <<>> /\ ~AllDone) => ENABLED WriterStep
    /\ (tasks # <<>> /\ AllDone) =>
          /\ \A p \in Writers : IsSome(tasks[p].result)
          /\ \A p, q \in Writers : p # q => tasks[p].result # tasks[q].result
          /\ \A p \in Writers : Get(memories, Unwrap(tasks[p].result)) = Some(tasks[p].record)
          /\ count_memories_result(memories, WriterTenant, None, None) = base + NWriters
          /\ ret.op = "count_memories" => ret.result = base + NWriters

\* all writers have returned, two of them stored the same agent and content,
\* the tenant already held a record, and the count was taken
C9_Witness ==
    /\ tasks # <<>>
    /\ AllDone
    /\ base = 1
    /\ \E p, q \in Writers : p # q /\ tasks[p].agent_id = tasks[q].agent_id /\ tasks[p].content = tasks[q].content
    /\ ret.op = "count_memories"
    /\ ret.result = base + NWriters

Min(a, b) == IF a <= b THEN a ELSE b
Max(a, b) == IF a >= b THEN a ELSE b

\* the call in r is get/update/delete of record id under a tenant that does
\* not own it
CrossTenantCall(r, all, id) ==
    /\ r.op \in {"get_memory", "update_memory", "delete_memory"}
    /\ r.memory_id = id
    /\ r.tenant_id # all[id].tenant_id

\* C1: tenant isolation of the memory store.  Whenever get_memory,
\* update_memory or delete_memory is called for a stored record under a tenant
\* other than the record's, the call answers absent / false / false, the
\* record is left exactly as it was (updated_at included), and get_memory
\* under the owning tenant still returns it.
C1_TenantIsolation ==
    ret.op \in {"get_memory", "update_memory", "delete_memory"} =>
        \A id \in DOMAIN pre.memories :
            CrossTenantCall(ret, pre.memories, id) =>
                /\ ret.op = "get_memory" => ret.result = None
                /\ ret.op = "update_memory" => ret.result = FALSE
                /\ ret.op = "delete_memory" => ret.result = FALSE
                /\ id \in DOMAIN memories
                /\ memories[id] = pre.memories[id]
                /\ get_memory_result(memories, id, pre.memories[id].tenant_id) = Some(pre.memories[id])

\* a cross-tenant update_memory was answered for a record its owner had
\* updated before (updated_at is later than created_at), at a later instant
C1_Witness ==
    /\ ret.op = "update_memory"
    /\ ret.memory_id \in DOMAIN pre.memories
    /\ pre.memories[ret.memory_id].tenant_id # ret.tenant_id
    /\ pre.memories[ret.memory_id].updated_at > pre.memories[ret.memory_id].created_at
    /\ now > pre.memories[ret.memory_id].updated_at
    /\ ret.result = FALSE

\* the record fields a caller may name in update_memory's updates
UpdatableFields == RecordFields \ {"id", "tenant_id", "created_at", "updated_at"}

\* C10: update_memory applies a partial field update.  When the record exists
\* and belongs to the tenant, the call returns true, every recognised key of
\* updates has the supplied value afterwards, every field not named keeps its
\* value except updated_at, which is set to the current instant.
C10_UpdateAppliesFields ==
    (/\ ret.op = "update_memory"
     /\ ret.memory_id \in DOMAIN pre.memories
     /\ pre.memories[ret.memory_id].tenant_id = ret.tenant_id)
    => LET id == ret.memory_id
           named == DOMAIN ret.updates \cap UpdatableFields
       IN  /\ ret.result = TRUE
           /\ id \in DOMAIN memories
           /\ \A k \in named : memories[id][k] = ret.updates[k]
           /\ \A k \in RecordFields \ (named \cup {"updated_at"}) : memories[id][k] = pre.memories[id][k]
           /\ memories[id].updated_at = pre.now

\* the stored records that belong to the tenant and pass the optional agent
\* and layer filters of a list_memories / count_memories call r
Matching(all, r) ==
    {id \in DOMAIN all :
        /\ all[id].tenant_id = r.tenant_id
        /\ r.agent_id = None \/ all[id].agent_id = Unwrap(r.agent_id)
        /\ r.layer = None \/ all[id].layer = Unwrap(r.layer)}

\* C8: list pagination and filtering.  count_memories answers the number of
\* stored records of the tenant that pass the optional agent and layer
\* filters; list_memories answers only such records, none twice, and exactly
\* min(limit, max(0, count - offset)) of them, whatever the tags argument.
C8_ListPaginationAndFiltering ==
    /\ ret.op = "count_memories" => ret.result = Cardinality(Matching(memories, ret))
    /\ ret.op = "list_memories" =>
          LET out == ret.result
              count == Cardinality(Matching(memories, ret))
          IN  /\ \A i \in 1..Len(out) : out[i].id \in Matching(memories, ret) /\ out[i] = memories[out[i].id]
              /\ \A i, j \in 1..Len(out) : i # j => out[i].id # out[j].id
              /\ Len(out) = Min(ret.limit, Max(0, count - ret.offset))

\* list_memories was answered with a tags argument, an agent filter that
\* rejects a stored record of the tenant, an offset inside the matching
\* records and a limit larger than what is left after the offset
C8_Witness ==
    /\ ret.op = "list_memories"
    /\ ret.tags # None
    /\ ret.agent_id # None
    /\ \E id \in DOMAIN memories : memories[id].tenant_id = ret.tenant_id /\ id \notin Matching(memories, ret)
    /\ Cardinality(Matching(memories, ret)) = 2
    /\ ret.offset = 1
    /\ ret.limit = 2
    /\ Len(ret.result) = 1

C12_DeleteMemoryFrame ==
    ret.op = "delete_memory" =>
        LET id == ret.memory_id
            owned == id \in DOMAIN pre.memories /\ pre.memories[id].tenant_id = ret.tenant_id
        IN  /\ ret.result = owned
            /\ ret.result = TRUE =>
                  /\ id \notin DOMAIN memories
                  /\ get_memory_result(memories, id, ret.tenant_id) = None
                  /\ delete_memory_result(memories, id, ret.tenant_id) = FALSE
                  /\ delete_memory_memories(memories, id, ret.tenant_id) = memories
            /\ \A k \in (DOMAIN pre.memories \cup DOMAIN memories) \ {id} : Get(memories, k) = Get(pre.memories, k)
            /\ ret.result = FALSE => memories = pre.memories

\* delete_memory removed a record while a record of another tenant stayed
C12_Witness ==
    /\ ret.op = "delete_memory"
    /\ ret.result = TRUE
    /\ ret.memory_id \in DOMAIN pre.memories
    /\ \E k \in DOMAIN memories : memories[k].tenant_id # ret.tenant_id

----------------------------------------------------------------------------
(* SpecNI: two runs of the graph store side by side.  Both runs take the    *)
(* same calls under tenant NITenant; each run takes calls of its own under  *)
(* the other tenants, on the same node identifiers.                         *)

NITenant == "t1"
NINodeIds == {"A", "B"}

\* the mutating calls of the graph store under one tenant
NIWrites(tenant_id) ==
    {[op |-> "create_node", node_id |-> n, node_type |-> ty, tenant_id |-> tenant_id] : n \in NINodeIds, ty \in CoreNodeTypes}
    \cup {[op |-> "create_edge", source_id |-> a, target_id |-> b, edge_type |-> ty, tenant_id |-> tenant_id] : a \in NINodeIds, b \in NINodeIds, ty \in CoreEdgeTypes}
    \cup {[op |-> "delete_node", node_id |-> n, tenant_id |-> tenant_id] : n \in NINodeIds}
    \cup {[op |-> "delete_edge", source_id |-> a, target_id |-> b, edge_type |-> ty, tenant_id |-> tenant_id] : a \in NINodeIds, b \in NINodeIds, ty \in CoreEdgeTypes}

\* the node map after the call w
WriteNodes(w, all_nodes) ==
    CASE w.op = "create_node" -> create_node_nodes(all_nodes, w.node_id, w.node_type, w.tenant_id, None)
      [] w.op = "delete_node" -> delete_node_nodes(all_nodes, w.node_id, w.tenant_id)
      [] OTHER -> all_nodes

\* the edge map after the call w
WriteEdges(w, all_edges) ==
    CASE w.op = "create_edge" -> create_edge_edges(all_edges, w.source_id, w.target_id, w.edge_type, w.tenant_id, 1, None)
      [] w.op = "delete_node" -> delete_node_edges(all_edges, w.node_id, w.tenant_id)
      [] w.op = "delete_edge" -> delete_edge_edges(all_edges, w.source_id, w.target_id, w.edge_type, w.tenant_id)
      [] OTHER -> all_edges

WithinNIBounds(all_nodes, all_edges) ==
    NodeCount(all_nodes) <= MaxNINodes /\ EdgeCount(all_edges) <= MaxNIEdges

\* both runs take the same call under NITenant
ni_same ==
    \E w \in NIWrites(NITenant) :
        /\ nodes' = WriteNodes(w, nodes)
        /\ edges' = WriteEdges(w, edges)
        /\ nodesB' = WriteNodes(w, nodesB)
        /\ edgesB' = WriteEdges(w, edgesB)
        /\ WithinNIBounds(nodes', edges')
        /\ WithinNIBounds(nodesB', edgesB')
        /\ UNCHANGED <<mvars, cvars, lvars, ret, pre>>

\* the first run takes a call under another tenant
ni_other_first ==
    \E tenant_id \in Tenants \ {NITenant} : \E w \in NIWrites(tenant_id) :
        /\ nodes' = WriteNodes(w, nodes)
        /\ edges' = WriteEdges(w, edges)
        /\ WithinNIBounds(nodes', edges')
        /\ UNCHANGED <<nivars, mvars, cvars, lvars, ret, pre>>

\* the second run takes a call under another tenant
ni_other_second ==
    \E tenant_id \in Tenants \ {NITenant} : \E w \in NIWrites(tenant_id) :
        /\ nodesB' = WriteNodes(w, nodesB)
        /\ edgesB' = WriteEdges(w, edgesB)
        /\ WithinNIBounds(nodesB', edgesB')
        /\ UNCHANGED <<gvars, mvars, cvars, lvars, ret, pre>>

NextNI ==
    \/ ni_same
    \/ ni_other_first
    \/ ni_other_second

SpecNI == Init /\ [][NextNI]_vars

----------------------------------------------------------------------------
(* Properties of the graph store *)

\* C2: tenant non-interference of the graph store.  Two runs that take the
\* same calls under NITenant and any calls under other tenants (on the same
\* node identifiers) hold the same node map and edge list for NITenant, and
\* every get_neighbors, shortest_path and get_subgraph call under NITenant
\* answers the same in both.
C2_GraphNonInterference ==
    /\ Get(nodes, NITenant) = Get(nodesB, NITenant)
    /\ Get(edges, NITenant) = Get(edgesB, NITenant)
    /\ \A n \in NINodeIds, ty \in {None} \cup {Some(t) : t \in CoreEdgeTypes}, direction \in Directions :
          get_neighbors_set(edges, n, NITenant, ty, direction, 1) = get_neighbors_set(edgesB, n, NITenant, ty, direction, 1)
    /\ \A a \in NINodeIds, b \in NINodeIds, max_depth \in 0..MaxDepth :
          shortest_path_result(edges, a, b, NITenant, max_depth) = shortest_path_result(edgesB, a, b, NITenant, max_depth)
    /\ \A ids \in SeqsUpTo(NINodeIds, MaxIdList), include_edges \in BOOLEAN :
          get_subgraph_result(nodes, edges, ids, NITenant, include_edges) = get_subgraph_result(nodesB, edgesB, ids, NITenant, include_edges)

\* NITenant holds a node and an edge; under another tenant the first run
\* created and deleted the same node and an edge (its maps are there, empty)
\* while the second run still holds a node and an edge on those identifiers
C2_Witness ==
    /\ TenantNodeIds(nodes, NITenant) # {}
    /\ Len(TenantEdges(edges, NITenant)) = 1
    /\ \E t \in Tenants \ {NITenant} :
          /\ t \in DOMAIN nodes /\ nodes[t] = EmptyMap
          /\ t \in DOMAIN edges /\ edges[t] = <<>>
          /\ TenantNodeIds(nodesB, t) = TenantNodeIds(nodes, NITenant)
          /\ Len(TenantEdges(edgesB, t)) = 1
          /\ TenantEdges(edgesB, t)[1].source_id = TenantEdges(edges, NITenant)[1].source_id

\* a and b are the two ends of some edge of te, in either orientation
Joined(te, a, b) ==
    \E i \in 1..Len(te) :
        \/ te[i].source_id = a /\ te[i].target_id = b
        \/ te[i].source_id = b /\ te[i].target_id = a

\* the nodes at most k undirected edges away from a
RECURSIVE Within(_, _, _)
Within(te, a, k) ==
    IF k = 0 THEN {a}
    ELSE LET near == Within(te, a, k - 1)
         IN  near \cup {e.target_id : e \in {x \in Range(te) : x.source_id \in near}}
                  \cup {e.source_id : e \in {x \in Range(te) : x.target_id \in near}}

\* te is the chain A-B-C-D: three edges, one per link, in any order and
\* orientation
IsChainABCD(te) ==
    /\ Len(te) = 3
    /\ Joined(te, "A", "B") /\ Joined(te, "B", "C") /\ Joined(te, "C", "D")

\* C3: shortest path correctness.  A path returned for source # target starts
\* at source, ends at target, repeats no node, joins consecutive nodes by an
\* edge of the tenant in either orientation, and no path with fewer edges
\* joins source and target; on the chain A-B-C-D the call for (A, D) answers
\* [A,B,C,D] with max_depth 5 and no path with max_depth 2.
C3_ShortestPathCorrect ==
    (ret.op = "shortest_path" /\ ret.source_id # ret.target_id) =>
        LET te == TenantEdges(edges, ret.tenant_id)
        IN  /\ IsSome(ret.result) =>
                  LET path == Unwrap(ret.result)
                  IN  /\ Len(path) >= 2
                      /\ path[1] = ret.source_id
                      /\ path[Len(path)] = ret.target_id
                      /\ \A i, j \in 1..Len(path) : i # j => path[i] # path[j]
                      /\ \A i \in 1..(Len(path) - 1) : Joined(te, path[i], path[i + 1])
                      /\ ret.target_id \notin Within(te, ret.source_id, Len(path) - 2)
            /\ (IsChainABCD(te) /\ ret.source_id = "A" /\ ret.target_id = "D") =>
                  /\ ret.max_depth = 5 => ret.result = Some(<<"A", "B", "C", "D">>)
                  /\ ret.max_depth = 2 => ret.result = None

\* shortest_path answered [A,B,C,D] on a chain A-B-C-D one of whose edges is
\* stored against the direction of travel
C3_Witness ==
    /\ ret.op = "shortest_path"
    /\ IsChainABCD(TenantEdges(edges, ret.tenant_id))
    /\ \E e \in Range(TenantEdges(edges, ret.tenant_id)) : e.source_id = "C" /\ e.target_id = "B"
    /\ ret.max_depth = 5
    /\ ret.result = Some(<<"A", "B", "C", "D">>)

\* C4 as claimed: a returned path has at most max_depth nodes.
C4_PathWithinMaxDepthNodes ==
    (ret.op = "shortest_path" /\ ret.source_id # ret.target_id /\ IsSome(ret.result)) =>
        Len(Unwrap(ret.result)) <= ret.max_depth

\* C4 as amended: a path returned for source # target has at most
\* max_depth + 1 nodes (at most max_depth edges), and no path is returned
\* when every path joining source and target has more than max_depth edges:
\* none for a direct edge with max_depth 0, none on the chain A-B-C-D with
\* max_depth 2.
C4_PathWithinMaxDepthEdges ==
    (ret.op = "shortest_path" /\ ret.source_id # ret.target_id) =>
        LET te == TenantEdges(edges, ret.tenant_id)
        IN  /\ IsSome(ret.result) => Len(Unwrap(ret.result)) <= ret.max_depth + 1
            /\ ret.target_id \notin Within(te, ret.source_id, ret.max_depth) => ret.result = None
            /\ ret.max_depth = 0 => ret.result = None
            /\ (IsChainABCD(te) /\ ret.source_id = "A" /\ ret.target_id = "D" /\ ret.max_depth = 2) => ret.result = None

\* shortest_path with max_depth 3 answered the four-node path of the chain
C4_Witness ==
    /\ ret.op = "shortest_path"
    /\ IsChainABCD(TenantEdges(edges, ret.tenant_id))
    /\ ret.max_depth = 3
    /\ ret.result = Some(<<"A", "B", "C", "D">>)

\* the edges of te of the type asked for (all of them when no type is given)
OfType(te, edge_type) ==
    {e \in Range(te) : edge_type = None \/ e.edge_type = Unwrap(edge_type)}

\* v lists exactly the elements of S, each once
ListsOnce(v, S) == Range(v) = S /\ Len(v) = Cardinality(S)

\* C5: traversal direction.  get_neighbors with direction "out" answers the
\* targets of the type-matching edges leaving the node, with direction "in"
\* the sources of the type-matching edges entering it, each identifier once,
\* whatever max_depth is; with the single edge A->B, out(A) holds B, out(B)
\* does not hold A and in(B) holds A.
C5_TraversalDirection ==
    ret.op = "get_neighbors" =>
        LET te == TenantEdges(edges, ret.tenant_id)
            typed == OfType(te, ret.edge_type)
            n == ret.node_id
        IN  /\ ret.direction = "out" => ListsOnce(ret.result, {e.target_id : e \in {x \in typed : x.source_id = n}})
            /\ ret.direction = "in" => ListsOnce(ret.result, {e.source_id : e \in {x \in typed : x.target_id = n}})
            /\ (Len(te) = 1 /\ te[1].source_id = "A" /\ te[1].target_id = "B" /\ ret.edge_type = None) =>
                  /\ (ret.direction = "out" /\ n = "A") => "B" \in Range(ret.result)
                  /\ (ret.direction = "out" /\ n = "B") => "A" \notin Range(ret.result)
                  /\ (ret.direction = "in" /\ n = "B") => "A" \in Range(ret.result)

\* get_neighbors "in" with a type filter answered one source while the node
\* also has an entering edge of another type and a leaving edge
C5_Witness ==
    /\ ret.op = "get_neighbors"
    /\ ret.direction = "in"
    /\ ret.edge_type = Some("L")
    /\ ret.max_depth = 0
    /\ Len(ret.result) = 1
    /\ \E e \in Range(TenantEdges(edges, ret.tenant_id)) :
          e.target_id = ret.node_id /\ e.edge_type = "M" /\ e.source_id \notin Range(ret.result)

\* the indices of the edges of te not incident to node n, in increasing order
RECURSIVE KeptIndices(_, _, _)
KeptIndices(te, n, i) ==
    IF i > Len(te) THEN <<>>
    ELSE IF te[i].source_id = n \/ te[i].target_id = n
         THEN KeptIndices(te, n, i + 1)
         ELSE <<i>> \o KeptIndices(te, n, i + 1)

\* the node stored under n in tenant t, if any
NodeAt(all_nodes, t, n) ==
    IF t \in DOMAIN all_nodes /\ n \in DOMAIN all_nodes[t] THEN Some(all_nodes[t][n]) ELSE None

\* the node a create_node call writes
Written(call) == Node(call.node_id, call.node_type, UnwrapOrDefault(call.properties))

\* the create_node calls in flight for identifier n of tenant t
CreatorsOf(t, n) == {p \in DOMAIN tasks : tasks[p].call.tenant_id = t /\ tasks[p].call.node_id = n}

\* C14: create_node is an upsert, last writer wins.  While create_node calls
\* run concurrently the edges never change and every stored node is, whole,
\* either the node that was there before or the node one of the calls for
\* its identifier writes; once all calls have returned each has answered
\* true, an identifier no call named is as it was, and an identifier some
\* calls named carries the type and properties of the call among them that
\* obtained the write lock last.
C14_CreateNodeLastWriterWins ==
    /\ edges = pre.edges
    /\ \A t \in DOMAIN nodes : \A n \in DOMAIN nodes[t] :
          /\ nodes[t][n].id = n
          /\ \/ NodeAt(pre.nodes, t, n) = Some(nodes[t][n])
             \/ \E p \in CreatorsOf(t, n) : nodes[t][n] = Written(tasks[p].call)
    /\ AllReturned =>
          /\ \A p \in DOMAIN tasks : tasks[p].result = Ok(TRUE)
          /\ \A t \in Tenants, n \in RaceNodeIds :
                IF CreatorsOf(t, n) = {}
                THEN NodeAt(nodes, t, n) = NodeAt(pre.nodes, t, n)
                ELSE \E p \in CreatorsOf(t, n) :
                        /\ \A q \in CreatorsOf(t, n) : tasks[q].turn <= tasks[p].turn
                        /\ NodeAt(nodes, t, n) = Some(Written(tasks[p].call))

\* all calls have returned; two of them wrote different values for a node
\* that was there before, and the one that locked last was not the one
\* numbered last
C14_Witness ==
    /\ AllReturned
    /\ \E p, q \in DOMAIN tasks :
          /\ p < q
          /\ tasks[p].call.tenant_id = tasks[q].call.tenant_id
          /\ tasks[p].call.node_id = tasks[q].call.node_id
          /\ Written(tasks[p].call) # Written(tasks[q].call)
          /\ tasks[p].turn > tasks[q].turn
          /\ \A r \in CreatorsOf(tasks[p].call.tenant_id, tasks[p].call.node_id) : tasks[r].turn <= tasks[p].turn
          /\ NodeAt(pre.nodes, tasks[p].call.tenant_id, tasks[p].call.node_id) # None
          /\ NodeAt(nodes, tasks[p].call.tenant_id, tasks[p].call.node_id) = Some(Written(tasks[p].call))

\* what a read call answers over the maps ns and es (the neighbours as a set)
ReadOn(call, ns, es) ==
    CASE call.op = "get_subgraph" -> get_subgraph_result(ns, es, call.node_ids, call.tenant_id, call.include_edges)
      [] call.op = "get_neighbors" -> get_neighbors_set(es, call.node_id, call.tenant_id, call.edge_type, call.direction, 1)
      [] call.op = "shortest_path" -> shortest_path_result(es, call.source_id, call.target_id, call.tenant_id, call.max_depth)

\* what the read p has answered (the neighbours as a set)
Observed(p) ==
    IF tasks[p].call.op = "get_neighbors" THEN Range(tasks[p].result.value) ELSE tasks[p].result.value

ReadOps == {"get_subgraph", "get_neighbors", "shortest_path"}

\* C15: no torn reads.  While delete_node(n, T) runs beside get_subgraph,
\* get_neighbors and shortest_path calls on T, every answer a read has
\* produced is the answer over the maps as they were before the delete or
\* over the maps as they are after it; a get_subgraph answer never lists an
\* edge incident to n without listing n, nor lists n without the incident
\* edges among the requested nodes.
C15_NoTornReads ==
    \A d \in DOMAIN tasks : tasks[d].call.op = "delete_node" =>
        LET n == tasks[d].call.node_id
            T == tasks[d].call.tenant_id
            nodes_after == delete_node_nodes(pre.nodes, n, T)
            edges_after == delete_node_edges(pre.edges, n, T)
        IN  \A p \in DOMAIN tasks :
                (tasks[p].call.op \in ReadOps /\ tasks[p].result # None) =>
                    /\ tasks[p].result.ok
                    /\ \/ Observed(p) = ReadOn(tasks[p].call, pre.nodes, pre.edges)
                       \/ Observed(p) = ReadOn(tasks[p].call, nodes_after, edges_after)
                    /\ tasks[p].call.op = "get_subgraph" =>
                          LET out == tasks[p].result.value
                              lists_n == \E i \in 1..Len(out.nodes) : out.nodes[i].id = n
                              lists_edge_of_n == \E i \in 1..Len(out.edges) : out.edges[i].source = n \/ out.edges[i].target = n
                              asked == ReadOn(tasks[p].call, pre.nodes, pre.edges)
                              asked_edge_of_n == \E i \in 1..Len(asked.edges) : asked.edges[i].source = n \/ asked.edges[i].target = n
                          IN  /\ lists_edge_of_n => lists_n
                              /\ (lists_n /\ asked_edge_of_n) => lists_edge_of_n

\* the delete has returned true; one get_subgraph that asked for n answered
\* with n and its edges, another read answered without them
C15_Witness ==
    /\ AllReturned
    /\ tasks[1].result = Ok(TRUE)
    /\ \E p, q \in DOMAIN tasks :
          /\ p # q
          /\ tasks[p].call.op = "get_subgraph"
          /\ \E i \in 1..Len(tasks[p].result.value.nodes) : tasks[p].result.value.nodes[i].id = tasks[1].call.node_id
          /\ \E i \in 1..Len(tasks[p].result.value.edges) : tasks[p].result.value.edges[i].source = tasks[1].call.node_id
          /\ tasks[q].call.op \in ReadOps
          /\ tasks[q].result.ok
          /\ Observed(q) # ReadOn(tasks[q].call, pre.nodes, pre.edges)
          /\ Observed(q) = ReadOn(tasks[q].call, nodes, edges)

\* C16: undirected neighbour query.  For a direction other than "out" and
\* "in" ("both", or any other string) get_neighbors(n) answers exactly the
\* ends other than n of the type-matching edges incident to n; the answer
\* never holds n itself, also when the tenant holds a self-loop on n.
C16_UndirectedNeighbors ==
    (ret.op = "get_neighbors" /\ ret.direction \notin {"out", "in"}) =>
        LET typed == OfType(TenantEdges(edges, ret.tenant_id), ret.edge_type)
            n == ret.node_id
            incident == {e \in typed : e.source_id = n \/ e.target_id = n}
        IN  /\ Range(ret.result) = {x \in NodeIds : x # n /\ \E e \in incident : x \in {e.source_id, e.target_id}}
            /\ n \notin Range(ret.result)

\* C17: shortest_path(x, x, T, max_depth) answers the one-element path [x]
\* in every state: whether or not x is a node of T, whether or not T has
\* nodes or an edge list, for every max_depth, 0 included; the call takes no
\* lock, so the edge map is not read, and the maps are left as they were.
C17_SameNodePath ==
    (ret.op = "shortest_path" /\ ret.source_id = ret.target_id) =>
        /\ ret.result = Some(<<ret.source_id>>)
        /\ LockPlan(ret) = <<>>
        /\ nodes = pre.nodes
        /\ edges = pre.edges

\* shortest_path(x, x, T, 0) was answered for an x that is no node of T, in
\* a tenant that has no edge list, while another tenant has x with a
\* self-loop on it
C17_Witness ==
    /\ ret.op = "shortest_path"
    /\ ret.source_id = ret.target_id
    /\ ret.max_depth = 0
    /\ ret.source_id \notin TenantNodeIds(nodes, ret.tenant_id)
    /\ ret.tenant_id \notin DOMAIN edges
    /\ \E t \in Tenants \ {ret.tenant_id} :
          /\ ret.source_id \in TenantNodeIds(nodes, t)
          /\ \E i \in 1..Len(TenantEdges(edges, t)) : TenantEdges(edges, t)[i].source_id = ret.source_id /\ TenantEdges(edges, t)[i].target_id = ret.source_id
    /\ ret.result = Some(<<ret.source_id>>)

\* shortest_path(x, x, T, max_depth > 0) was answered for a node x of T that
\* has an edge to another node
C17_WitnessNode ==
    /\ ret.op = "shortest_path"
    /\ ret.source_id = ret.target_id
    /\ ret.max_depth > 0
    /\ ret.source_id \in TenantNodeIds(nodes, ret.tenant_id)
    /\ \E i \in 1..Len(TenantEdges(edges, ret.tenant_id)) : TenantEdges(edges, ret.tenant_id)[i].source_id = ret.source_id /\ TenantEdges(edges, ret.tenant_id)[i].target_id # ret.source_id

\* the locks a call needs
Needs(call) == {LockPlan(call)[i].lock : i \in 1..Len(LockPlan(call))}

\* C18: internal faults.  A call that returns while a lock it needs is
\* poisoned returns Err, and a call returns Err only then; no call holds a
\* guard on a poisoned lock; once a panicking writer has poisoned a lock the
\* map behind it stays as it was at the panic, and once the edge lock is
\* poisoned no delete_node removes a node either (it needs both locks).
C18_PoisonedLockFaults ==
    /\ \A p \in DOMAIN tasks :
          /\ \A i \in 1..tasks[p].held : LockPlan(tasks[p].call)[i].lock \notin poisoned
          /\ tasks[p].pc = "done" =>
                /\ (tasks[p].seen \cap Needs(tasks[p].call) # {}) <=> (tasks[p].result = Err)
                /\ (tasks[p].seen \cap Needs(tasks[p].call) = {}) <=> tasks[p].result.ok
          /\ tasks[p].pc = "panicked" =>
                LET was == Unwrap(tasks[p].local)
                IN  /\ Needs(tasks[p].call) \subseteq poisoned
                    /\ "nodes" \in Needs(tasks[p].call) => nodes = was.nodes
                    /\ "edges" \in Needs(tasks[p].call) =>
                          /\ edges = was.edges
                          /\ \A t \in Tenants : TenantNodeIds(was.nodes, t) \subseteq TenantNodeIds(nodes, t)
                    /\ "memories" \in Needs(tasks[p].call) => memories = was.memories

\* delete_node obtained the node lock, found the edge lock poisoned and
\* returned Err: its node and the edge on it are still there; a store_memory
\* returned Err on the poisoned memory lock and stored nothing
C18_Witness ==
    /\ AllReturned
    /\ poisoned = {"edges", "memories"}
    /\ \E p \in DOMAIN tasks :
          /\ tasks[p].call.op = "delete_node"
          /\ tasks[p].result = Err
          /\ tasks[p].call.node_id \in TenantNodeIds(nodes, tasks[p].call.tenant_id)
          /\ \E i \in 1..Len(TenantEdges(edges, tasks[p].call.tenant_id)) : TenantEdges(edges, tasks[p].call.tenant_id)[i].source_id = tasks[p].call.node_id

\* the identifiers of the nodes a get_subgraph answer lists
ReturnedIds(out) == {out.nodes[i].id : i \in 1..Len(out.nodes)}

\* C19 as claimed: every edge of a get_subgraph(ids, T, include_edges=true)
\* answer has its source and its target among the nodes of the answer, also
\* when the tenant holds dangling edges.
C19_SubgraphClosure ==
    (ret.op = "get_subgraph" /\ ret.include_edges) =>
        \A i \in 1..Len(ret.result.edges) :
            /\ ret.result.edges[i].source \in ReturnedIds(ret.result)
            /\ ret.result.edges[i].target \in ReturnedIds(ret.result)

\* C19, amended: every edge of a get_subgraph(ids, T, include_edges=true)
\* answer has its source and its target among the requested ids, and each
\* of its ends that is a node of T is among the nodes of the answer; an end
\* that is no node of T (a dangling edge) is not.
C19_SubgraphClosureOverRequested ==
    (ret.op = "get_subgraph" /\ ret.include_edges) =>
        \A i \in 1..Len(ret.result.edges) :
            \A x \in {ret.result.edges[i].source, ret.result.edges[i].target} :
                /\ x \in Range(ret.node_ids)
                /\ x \in ReturnedIds(ret.result) <=> x \in TenantNodeIds(nodes, ret.tenant_id)

\* get_subgraph answered an edge between two requested identifiers of which
\* one is a node of the tenant and the other is a node of another tenant only
C19_Witness ==
    /\ ret.op = "get_subgraph"
    /\ ret.include_edges
    /\ Len(ret.result.edges) = 1
    /\ ret.result.edges[1].source \in ReturnedIds(ret.result)
    /\ ret.result.edges[1].target \notin ReturnedIds(ret.result)
    /\ \E t \in Tenants \ {ret.tenant_id} : ret.result.edges[1].target \in TenantNodeIds(nodes, t)

\* a call that takes two locks takes the node lock first, then the edge lock
NodeLockFirst(call) ==
    /\ Len(LockPlan(call)) <= 2
    /\ Len(LockPlan(call)) = 2 => LockPlan(call)[1].lock = "nodes" /\ LockPlan(call)[2].lock = "edges"

\* C20: deadlock freedom of the graph store.  Every call takes at most two
\* locks, the node lock before the edge lock; in every state where some call
\* has not returned some call can take a step; and under a fair scheduler
\* every call eventually returns.
C20_DeadlockFreedom ==
    /\ [](\A p \in DOMAIN tasks : NodeLockFirst(tasks[p].call))
    /\ [](~AllReturned => ENABLED NextLive)
    /\ \A p \in LiveProcs : <>(tasks[p].pc = "done")

\* delete_node holds the node lock and waits for the edge lock, which a
\* reader holds, while get_subgraph waits for the node lock
C20_Witness ==
    \E d, r, g \in DOMAIN tasks :
        /\ tasks[d].call.op = "delete_node"
        /\ locks["nodes"].writer = d
        /\ tasks[d].pc = "start"
        /\ tasks[r].call.op \in {"get_neighbors", "shortest_path"}
        /\ r \in locks["edges"].readers
        /\ tasks[g].call.op = "get_subgraph"
        /\ tasks[g].pc = "start"
        /\ tasks[g].held = 0

\* the shortest_path call of SpecBfs is inside its while loop
InLoop == tasks[1].pc \in {"loop", "scan"}

\* C21: shortest_path terminates.  On every edge list (cycles, self-loops
\* and duplicate edges included) and for every max_depth, each node is
\* pushed onto the queue at most once and only together with its entry into
\* the visited set, the queued paths end in different nodes, and the call
\* eventually returns: a path, or 'no path', the answer of the search.
C21_ShortestPathTerminates ==
    /\ [](InLoop =>
            LET l == tasks[1].local
            IN  /\ \A n \in BfsNodeIds : l.pushes[n] <= 1
                /\ l.visited = {n \in BfsNodeIds : l.pushes[n] = 1}
                /\ \A j \in 1..Len(l.queue) : l.queue[j][Len(l.queue[j])] \in l.visited
                /\ \A j, k \in 1..Len(l.queue) : j # k => l.queue[j][Len(l.queue[j])] # l.queue[k][Len(l.queue[k])])
    /\ [](tasks[1].pc = "done" =>
            /\ tasks[1].result.ok
            /\ tasks[1].result.value = shortest_path_result(edges, tasks[1].call.source_id, tasks[1].call.target_id, tasks[1].call.tenant_id, tasks[1].call.max_depth))
    /\ <>(tasks[1].pc = "done")

\* the search is scanning from its second node over an edge list that holds
\* a duplicate edge and a self-loop, with every node but the target visited
C21_Witness ==
    /\ tasks[1].pc = "scan"
    /\ tasks[1].local.visited = BfsNodeIds \ {tasks[1].call.target_id}
    /\ Len(tasks[1].local.path) = 2
    /\ \E i, j \in 1..Len(edges[TornTenant]) :
          /\ i # j
          /\ edges[TornTenant][i] = edges[TornTenant][j]
    /\ \E i \in 1..Len(edges[TornTenant]) : edges[TornTenant][i].source_id = edges[TornTenant][i].target_id

\* the type filters of get_neighbors
TypeFilters == {None} \cup {Some(t) : t \in EdgeTypes}

\* C22: direction duality.  Over every edge list, for every tenant, type
\* filter and nodes a, b: b is an "out" neighbour of a exactly when a is an
\* "in" neighbour of b, and the "both" neighbours of a node are its "out"
\* neighbours together with its "in" neighbours; a get_neighbors call with
\* direction "both" answers that union.
C22_DirectionDuality ==
    /\ \A t \in Tenants, ty \in TypeFilters, a \in NodeIds :
          /\ \A b \in NodeIds :
                b \in get_neighbors_set(edges, a, t, ty, "out", 1) <=> a \in get_neighbors_set(edges, b, t, ty, "in", 1)
          /\ get_neighbors_set(edges, a, t, ty, "both", 1)
                = get_neighbors_set(edges, a, t, ty, "out", 1) \cup get_neighbors_set(edges, a, t, ty, "in", 1)
    /\ (ret.op = "get_neighbors" /\ ret.direction = "both") =>
          Range(ret.result) = get_neighbors_set(edges, ret.node_id, ret.tenant_id, ret.edge_type, "out", 1)
                              \cup get_neighbors_set(edges, ret.node_id, ret.tenant_id, ret.edge_type, "in", 1)

\* get_neighbors "both" with a type filter answered two nodes: one reached
\* by a leaving edge only, one by an entering edge only
C22_Witness ==
    /\ ret.op = "get_neighbors"
    /\ ret.direction = "both"
    /\ ret.edge_type # None
    /\ Len(ret.result) = 2
    /\ Cardinality(get_neighbors_set(edges, ret.node_id, ret.tenant_id, ret.edge_type, "out", 1)) = 1
    /\ Cardinality(get_neighbors_set(edges, ret.node_id, ret.tenant_id, ret.edge_type, "in", 1)) = 1
    /\ ret.node_id \notin Range(ret.result)

\* the edge e is what a delete_edge call r names
Named(e, r) == e.source_id = r.source_id /\ e.target_id = r.target_id /\ e.edge_type = r.edge_type

\* the positions of te, from i on, whose edge the call r does not name
RECURSIVE UnnamedIndices(_, _, _)
UnnamedIndices(te, r, i) ==
    IF i > Len(te) THEN <<>>
    ELSE IF Named(te[i], r)
         THEN UnnamedIndices(te, r, i + 1)
         ELSE <<i>> \o UnnamedIndices(te, r, i + 1)

\* C13: delete_edge(s, t, type, T) removes every edge of T with that source,
\* target and type and no other edge (not the edge stored the other way
\* round, not an edge of another type, no edge of another tenant), keeps the
\* remaining edges in their order, and answers true exactly when it removed
\* an edge; false when T has no edge list.
C13_DeleteEdgeExact ==
    ret.op = "delete_edge" =>
        LET before == TenantEdges(pre.edges, ret.tenant_id)
            after == TenantEdges(edges, ret.tenant_id)
            kept == UnnamedIndices(before, ret, 1)
        IN  /\ \A i \in 1..Len(after) : ~Named(after[i], ret)
            /\ after = [j \in 1..Len(kept) |-> before[kept[j]]]
            /\ ret.result = (\E i \in 1..Len(before) : Named(before[i], ret))
            /\ ret.result = (Len(after) < Len(before))
            /\ ret.tenant_id \notin DOMAIN pre.edges => ret.result = FALSE /\ edges = pre.edges
            /\ \A t \in Tenants \ {ret.tenant_id} : Get(edges, t) = Get(pre.edges, t)
            /\ nodes = pre.nodes

\* delete_edge removed two duplicate edges at once and left the edge stored
\* the other way round
C13_Witness ==
    /\ ret.op = "delete_edge"
    /\ ret.result = TRUE
    /\ ret.source_id # ret.target_id
    /\ Len(TenantEdges(pre.edges, ret.tenant_id)) = 3
    /\ Len(TenantEdges(edges, ret.tenant_id)) = 1
    /\ TenantEdges(edges, ret.tenant_id)[1].source_id = ret.target_id
    /\ TenantEdges(edges, ret.tenant_id)[1].target_id = ret.source_id
    /\ TenantEdges(edges, ret.tenant_id)[1].edge_type = ret.edge_type

\* C6: node deletion cascades edges.  Right after delete_node(n, T), whether
\* or not n was a node of T, no edge of T has n as source or target, the other
\* edges of T are kept in their original order, the call answers true exactly
\* when n was a node of T, and get_neighbors of any other node of T no longer
\* holds n.
C6_DeleteNodeCascades ==
    ret.op = "delete_node" =>
        LET n == ret.node_id
            before == TenantEdges(pre.edges, ret.tenant_id)
            after == TenantEdges(edges, ret.tenant_id)
            kept == KeptIndices(before, n, 1)
        IN  /\ \A i \in 1..Len(after) : after[i].source_id # n /\ after[i].target_id # n
            /\ after = [j \in 1..Len(kept) |-> before[kept[j]]]
            /\ ret.result = (n \in TenantNodeIds(pre.nodes, ret.tenant_id))
            /\ n \notin TenantNodeIds(nodes, ret.tenant_id)
            /\ \A m \in NodeIds \ {n}, direction \in Directions :
                  n \notin get_neighbors_set(edges, m, ret.tenant_id, None, direction, 1)

\* delete_node answered false for an identifier that was no node of the
\* tenant, and removed an edge incident to it while keeping another edge
C6_Witness ==
    /\ ret.op = "delete_node"
    /\ ret.result = FALSE
    /\ Len(TenantEdges(pre.edges, ret.tenant_id)) = 2
    /\ Len(TenantEdges(edges, ret.tenant_id)) = 1

\* C7: subgraph induction.  get_subgraph answers as nodes the listed
\* identifiers that are nodes of the tenant (in list order, with the stored
\* type and properties) and, with include_edges, exactly the tenant's edges
\* whose source and target are both listed, in stored order; without
\* include_edges the edge list is empty.
C7_SubgraphInduction ==
    ret.op = "get_subgraph" =>
        LET ids == ret.node_ids
            exists(id) == id \in TenantNodeIds(nodes, ret.tenant_id)
            te == TenantEdges(edges, ret.tenant_id)
            inside(e) == \E i, j \in 1..Len(ids) : ids[i] = e.source_id /\ ids[j] = e.target_id
            found == SelectSeq(ids, exists)
            induced == SelectSeq(te, inside)
        IN  /\ Len(ret.result.nodes) = Len(found)
            /\ \A i \in 1..Len(found) :
                  /\ ret.result.nodes[i].id = found[i]
                  /\ ret.result.nodes[i].type = nodes[ret.tenant_id][found[i]].node_type
                  /\ ret.result.nodes[i].properties = nodes[ret.tenant_id][found[i]].properties
            /\ ret.include_edges =>
                  /\ Len(ret.result.edges) = Len(induced)
                  /\ \A i \in 1..Len(induced) :
                        /\ ret.result.edges[i].source = induced[i].source_id
                        /\ ret.result.edges[i].target = induced[i].target_id
                        /\ ret.result.edges[i].type = induced[i].edge_type
                        /\ ret.result.edges[i].weight = induced[i].weight
            /\ ~ret.include_edges => ret.result.edges = <<>>

\* get_subgraph with include_edges answered one of the tenant's two edges:
\* the other has only one end in the list; one listed identifier is no node
C7_Witness ==
    /\ ret.op = "get_subgraph"
    /\ ret.include_edges
    /\ Len(ret.node_ids) = 2
    /\ Len(ret.result.nodes) = 1
    /\ Len(ret.result.edges) = 1
    /\ \E e \in Range(TenantEdges(edges, ret.tenant_id)) :
          /\ e.source_id \in Range(ret.node_ids)
          /\ e.target_id \notin Range(ret.node_ids)

====
